---- MODULE Spec2Model ----
(***************************************************************************)
(* Model of the embedded debug/logging framework: the engine (debug.c),    *)
(* the FreeRTOS and bare-metal port layers and the channel write hook.     *)
(* Bytes are ASCII codes; the format buffer s_buffer is a C char array     *)
(* indexed from 0, strings in it end at the first NUL.                     *)
(***************************************************************************)
EXTENDS Integers, Sequences, FiniteSets, TLC

(* ------------------------------ bounds -------------------------------- *)
\* calls of debug_init, debug_get_level, debug_log, debug_printf and debug_write
\* made at most
MaxCalls == 3
\* the same, after start-up, where termination is checked
MaxLiveCalls == 2
\* largest formatted length of a caller's text
MaxMsgLen == 3
\* value the tick counter is capped at
MaxTick == 1

(* --------------------------- program constants ------------------------ *)
LOG_ERROR == 0
LOG_WARN == 1
LOG_INFO == 2
LOG_DEBUG == 3
\* half of a 32-bit word: uint32_t and size_t values are kept as two 16-bit halves
HALF == 65536

NUL == 0
CR == 13
LF == 10

(* ------------------------------ helpers ------------------------------- *)
Min(a, b) == IF a < b THEN a ELSE b

\* a uint32_t / size_t value (32 bits on the Cortex-M targets of the ports)
U32(n) == [hi |-> (n \div HALF) % HALF, lo |-> n % HALF]
U32Zero == [hi |-> 0, lo |-> 0]

\* 2^32 - 1
U32Max == [hi |-> HALF - 1, lo |-> HALF - 1]

\* (mutant) the counter stops at its largest value
U32Inc_sat(x) ==
  IF x.lo < HALF - 1 THEN [x EXCEPT !.lo = x.lo + 1]
  ELSE IF x.hi < HALF - 1 THEN [hi |-> x.hi + 1, lo |-> 0]
  ELSE x

\* x + 1 modulo 2^32
U32Inc(x) ==
  IF x.lo < HALF - 1 THEN [x EXCEPT !.lo = x.lo + 1]
  ELSE IF x.hi < HALF - 1 THEN [hi |-> x.hi + 1, lo |-> 0]
  ELSE U32Zero

\* a - b modulo 2^32, for small naturals a and b (size_t subtraction)
U32Sub(a, b) ==
  IF a >= b THEN U32(a - b)
  ELSE [hi |-> HALF - 1, lo |-> HALF - (b - a)]

\* quotient and remainder of x by 10 (long division on the halves)
U32DivMod10(x) ==
  LET r1  == x.hi % 10
      mid == r1 * HALF + x.lo
  IN  [q |-> [hi |-> x.hi \div 10, lo |-> mid \div 10], r |-> mid % 10]

\* "%lu": the decimal digits of x, most significant first
RECURSIVE DecDigits(_)
DecDigits(x) ==
  LET d == U32DivMod10(x)
  IN  IF d.q = U32Zero THEN <<48 + d.r>>
      ELSE Append(DecDigits(d.q), 48 + d.r)

\* "%05lu": zero-padded to at least 5 digits
RECURSIVE ZeroPad(_, _)
ZeroPad(s, w) == IF Len(s) >= w THEN s ELSE ZeroPad(<<48>> \o s, w)

Bracket(s) == <<91>> \o s \o <<93>>

\* (mutant) the sequence number is printed with "%lu", without padding
SeqSegment_nopad(seq) == Bracket(DecDigits(seq))

\* the segments of a log line
SeqSegment(seq) == Bracket(ZeroPad(DecDigits(seq), 5))
TsSegment(ts) == Bracket(DecDigits(ts))
ThreadSegment(name) == Bracket(name)

STR_LOG   == <<76, 79, 71>>
STR_ERROR == <<69, 82, 82, 79, 82>>
STR_WARN  == <<87, 65, 82, 78>>
STR_INFO  == <<73, 78, 70, 79>>
STR_DEBUG == <<68, 69, 66, 85, 71>>
STR_MAIN  == <<77, 65, 73, 78>>
STR_ISR   == <<73, 83, 82>>
STR_TASK  == <<84, 65, 83, 75>>
STR_BOOM  == <<98, 111, 111, 109>>
CRLF      == <<CR, LF>>


(* --------------------------- C string library -------------------------- *)
\* store bytes at offset off of array buf; bytes that fall past the array are
\* not part of buf (they hit whatever follows it in memory, see Overflows)
Store(buf, off, bytes) ==
  [i \in DOMAIN buf |->
     IF i >= off /\ i < off + Len(bytes) THEN bytes[i - off + 1] ELSE buf[i]]

\* strlen: index of the first NUL (the array's capacity when it holds none)
StrLen(buf) ==
  LET C == Cardinality(DOMAIN buf)
      Z == {i \in DOMAIN buf : buf[i] = NUL}
  IN  IF Z = {} THEN C ELSE CHOOSE i \in Z : \A j \in Z : i <= j

\* the C string held in buf
StrOf(buf) == [i \in 1..StrLen(buf) |-> buf[i - 1]]

\* number of text bytes snprintf stores for a size argument (a size_t)
Fit(size, text) ==
  IF size = U32Zero THEN 0
  ELSE IF size.hi > 0 THEN Len(text)
  ELSE Min(Len(text), size.lo - 1)

\* the bytes snprintf(&buf[off], size, ...) stores: the text cut to size-1, then NUL
Stored(size, text) ==
  IF size = U32Zero THEN << >>
  ELSE SubSeq(text, 1, Fit(size, text)) \o <<NUL>>

\* snprintf / vsnprintf: the array after the call (the call returns Len(text))
snprintf(buf, off, size, text) == Store(buf, off, Stored(size, text))

\* the call stores at least one byte outside the array of capacity C
Overflows(C, off, size, text) == off + Len(Stored(size, text)) > C

\* strncat(dest, src, n): at most n bytes of src after the string in dest, then NUL
strncat(buf, src, n) ==
  Store(buf, StrLen(buf), SubSeq(src, 1, Min(Len(src), n)) \o <<NUL>>)


(* ------------------------------- state -------------------------------- *)
VARIABLES
  debug_ctx,        \* engine context: transport, debug_port, level, initialized
  log_sequence_no,  \* the sequence counter (uint32_t)
  s_buffer,         \* the shared format buffer, indexes 0..DEBUG_BUFFER_SIZE-1
  debug_mutex,      \* FreeRTOS port: the mutex handle, "NULL" until created
  mutex_holder,     \* the context that holds the mutex, NoHolder when free
  tick,             \* the kernel tick count
  cfg,              \* build configuration (config.h)
  hal,              \* the transport descriptor handed to debug_init
  port,             \* the port descriptor handed to debug_init
  names,            \* the task name of every context
  env,              \* what the application calls the engine with
  pc,               \* where every calling context stands
  frame,            \* the locals of every context's current call
  ret,              \* the value every context's last call returned
  trace,            \* hooks invoked by every context's current (or last) call
  tx,               \* data the channel was handed by that call
  budget,           \* calls the application may still make
  level_set,        \* the threshold the application asked for last (history)
  init_ret,         \* what the last debug_init returned
  init_trace,       \* hooks invoked by the last debug_init, in order
  last_seq,         \* the sequence number handed out last
  last,             \* the call entered last: who called which function
  oob,              \* undefined behaviour has happened (a store outside s_buffer,
                    \* a kernel call on a handle that is no mutex)
  boot              \* the start-up and shut-down calls made so far (history)

vars == <<debug_ctx, log_sequence_no, s_buffer, debug_mutex, mutex_holder, tick,
          cfg, hal, port, names, env, pc, frame, ret, trace, tx, budget,
          init_ret, init_trace, last_seq, last, oob, level_set, boot>>

\* the objects that never change after start-up
static == <<cfg, hal, port, names, env>>

\* context 0 is an interrupt handler, the others are tasks (or the main loop)
ISR == 0
Tasks == {1, 2}
Callers == {ISR} \cup Tasks
NoHolder == 0 - 1

\* __get_IPSR() != 0
is_isr(p) == p = ISR

\* an interrupt handler runs to completion before any task goes on
\* (nothing is modelled once a store has left the buffer: the behaviour is undefined)
Runs(p) == ~oob /\ (is_isr(p) \/ pc[ISR] = "idle")

DEBUG_BUFFER_SIZE == cfg.size

\* the caller's formatted text of length len: letters that tell callers
\* and positions apart, or the application's own message
Text(p, len) ==
  IF env.boom THEN [i \in 1..len |-> STR_BOOM[((i - 1) % Len(STR_BOOM)) + 1]]
  ELSE [i \in 1..len |-> 97 + ((13 * p + i - 1) % 26)]

NoFrame ==
  [op |-> "none", level |-> 0, len |-> 0, null |-> FALSE, n |-> 0, seq |-> U32Zero,
   tmp |-> U32Zero, ts |-> 0, thread |-> STR_MAIN, src |-> "none", wlen |-> 0,
   r |-> 0, drv |-> "none"]

(* ------------------------------ port layer ----------------------------- *)
\* (mutant) the interrupt test of the lock is inverted
debug_port_freertos_lock_takes_inverted(p) == debug_mutex # "NULL" /\ is_isr(p)

\* (mutant) the lock does not ask whether it runs in an interrupt handler
debug_port_freertos_lock_takes_noisr(p) == debug_mutex # "NULL"

\* debug_port_freertos_lock takes the mutex (and may have to wait for it)
debug_port_freertos_lock_takes(p) == debug_mutex # "NULL" /\ ~is_isr(p)

\* debug_port_freertos_unlock gives the mutex
debug_port_freertos_unlock_gives(p) == debug_mutex # "NULL" /\ ~is_isr(p)

\* (mutant) the engine never calls the lock hook
HasLock_never == FALSE

\* the engine has a lock hook to call
HasLock == debug_ctx.debug_port /\ port.lock

\* (mutant) the unlock hook is never found
HasUnlock_never == FALSE

\* the engine has an unlock hook to call
HasUnlock == debug_ctx.debug_port /\ port.unlock

\* the lock hook of the port acquires the mutex for p
Takes(p) == HasLock /\ port.kind = "freertos" /\ debug_port_freertos_lock_takes(p)
Gives(p) == HasUnlock /\ port.kind = "freertos" /\ debug_port_freertos_unlock_gives(p)

\* (mutant) the take does not wait for the holder
CanLock_nowait(p) == TRUE

\* lock(): returns once the mutex is free (xSemaphoreTake with portMAX_DELAY)
CanLock(p) == Takes(p) => mutex_holder = NoHolder
AfterLock(p) == IF Takes(p) THEN p ELSE mutex_holder
\* (mutant) the unlock hook does not give the mutex back
AfterUnlock_keeps(p) == mutex_holder

\* unlock(): the mutex is free again (xSemaphoreGive)
AfterUnlock(p) == IF Gives(p) /\ mutex_holder = p THEN NoHolder ELSE mutex_holder

\* get_timestamp hook: the tick count (FreeRTOS), the stub value 0 (bare metal);
\* now is the kernel's tick count at the time of the call
get_timestamp(p, now) == IF port.kind = "freertos" THEN now ELSE 0

\* get_thread_name hook
NULLSTR == <<0 - 1>>
pcTaskGetName(p) == names[p]
debug_port_freertos_get_thread_name(p) ==
  IF is_isr(p) THEN STR_ISR
  ELSE IF pcTaskGetName(p) # NULLSTR THEN pcTaskGetName(p) ELSE STR_TASK
debug_port_baremetal_get_thread_name(p) == IF is_isr(p) THEN STR_ISR ELSE STR_MAIN
get_thread_name(p) ==
  IF port.kind = "freertos" THEN debug_port_freertos_get_thread_name(p)
  ELSE debug_port_baremetal_get_thread_name(p)

\* the write hook hands the data to the driver (CDC_Transmit_FS,
\* HAL_UART_Transmit), once
driver_called(present, len) == present /\ len # 0

\* (mutant) the arguments are not checked
transport_write_nocheck(present, len, driver_ok) == IF driver_ok THEN len ELSE 0 - 1

\* write hook of the USB CDC and UART transports
transport_write(present, len, driver_ok) ==
  IF ~present \/ len = 0 THEN 0 - 1
  ELSE IF driver_ok THEN len ELSE 0 - 1


(* ------------------------------- engine -------------------------------- *)
Finish(p, v) == pc' = [pc EXCEPT ![p] = "idle"] /\ ret' = [ret EXCEPT ![p] = v]
Goto(p, l) == pc' = [pc EXCEPT ![p] = l] /\ UNCHANGED ret
Note(p, hooks) == trace' = [trace EXCEPT ![p] = trace[p] \o hooks]

\* what is left of a frame when its call has returned: the locals are gone, the
\* function and the arguments that tell what the call was are kept
Popped(f) == [NoFrame EXCEPT !.op = f.op, !.level = f.level, !.null = f.null]
Pop(p) == frame' = [frame EXCEPT ![p] = Popped(frame[p])]

\* a context enters one of the emission functions
Enter(p, op) ==
  /\ pc[p] = "idle" /\ Runs(p) /\ p \in env.callers /\ budget > 0
  /\ budget' = budget - 1
  /\ last' = [who |-> p, op |-> op]
  /\ trace' = [trace EXCEPT ![p] = << >>]
  /\ tx' = [tx EXCEPT ![p] = << >>]

\* debug_init(trns_hal, debug_port): trns and prt say whether the references are
\* present, tres and pres are what the init hooks return when they are invoked

\* (mutant) only the transport reference is tested
InvalidArgument_trns(trns, prt) == ~trns

\* the argument check
InvalidArgument(trns, prt) == ~trns \/ ~prt

\* (mutant) an absent init hook of the transport counts as a failure
TransportInitFails_absent(tres) == ~hal.init \/ tres # 0

\* the transport has an init hook and it reports a failure
TransportInitFails(tres) == hal.init /\ tres # 0

\* (mutant) the port's init hook is called after a failure of the transport's too
PortInitCalled_always(tres) == port.init

\* the port's init hook is reached and present
PortInitCalled(tres) == ~TransportInitFails(tres) /\ port.init

PortInitFails(tres, pres) == PortInitCalled(tres) /\ pres # 0
InitFails(tres, pres) == TransportInitFails(tres) \/ PortInitFails(tres, pres)

\* (mutant) the threshold is left as it was
InitLevel_keep == debug_ctx.level

\* the threshold debug_init sets
InitLevel == LOG_DEBUG

\* (mutant) the engine is marked ready whatever the hooks returned
ReadyFlag_always(fails) == 1

\* (mutant) a channel without a write hook is turned down
ReadyFlag_needs_write(fails) == IF fails \/ ~hal.write THEN 0 ELSE 1

\* the initialized flag debug_init leaves: 0 is stored first, 1 on full success
ReadyFlag(fails) == IF fails THEN 0 ELSE 1

\* (mutant) the numbering restarts with the engine
InitSequence_restart == U32Zero

\* the sequence counter after debug_init: the function has no store to it
InitSequence == log_sequence_no

debug_init(trns, prt, tres, pres) ==
  /\ \A p \in Callers : pc[p] = "idle"
  /\ budget > 0
  /\ budget' = budget - 1
  /\ last' = [who |-> NoHolder, op |-> "debug_init", trns |-> trns, prt |-> prt]
  /\ IF InvalidArgument(trns, prt)
     THEN /\ init_ret' = 0 - 1
          /\ init_trace' = << >>
          /\ UNCHANGED <<debug_ctx, debug_mutex, level_set>>
     ELSE /\ debug_ctx' = [transport |-> TRUE, debug_port |-> TRUE,
                           level |-> InitLevel,
                           initialized |-> ReadyFlag(InitFails(tres, pres))]
          /\ init_trace' =
                (IF hal.init THEN <<[hook |-> "transport.init", r |-> tres]>>
                 ELSE << >>) \o
                (IF PortInitCalled(tres) THEN <<[hook |-> "port.init", r |-> pres]>>
                 ELSE << >>)
          /\ debug_mutex' = IF PortInitCalled(tres) /\ port.kind = "freertos"
                            THEN (IF pres = 0 THEN "mutex" ELSE "NULL")
                            ELSE debug_mutex
          /\ init_ret' = IF InitFails(tres, pres) THEN 0 - 1 ELSE 0
          /\ level_set' = LOG_DEBUG
  /\ log_sequence_no' = InitSequence
  /\ UNCHANGED <<s_buffer, mutex_holder, tick, static, pc, frame,
                 ret, trace, tx, last_seq, oob, boot>>

\* (mutant) the threshold is only ever raised
StoredLevel_raise(level) == IF level > debug_ctx.level THEN level ELSE debug_ctx.level

\* the threshold debug_set_level stores
StoredLevel(level) == level

debug_set_level(p, level) ==
  /\ pc[p] = "idle" /\ Runs(p) /\ p \in env.callers
  /\ debug_ctx' = [debug_ctx EXCEPT !.level = StoredLevel(level)]
  /\ level_set' = level
  /\ UNCHANGED <<log_sequence_no, s_buffer, debug_mutex, mutex_holder, tick, static,
                 pc, frame, ret, trace, tx, budget, init_ret, init_trace,
                 last_seq, last, oob, boot>>

\* debug_get_level(): the caller receives the threshold
debug_get_level(p) ==
  /\ Enter(p, "debug_get_level")
  /\ ret' = [ret EXCEPT ![p] = debug_ctx.level]
  /\ UNCHANGED <<debug_ctx, log_sequence_no, s_buffer, debug_mutex, mutex_holder,
                 tick, static, pc, frame, init_ret, init_trace, level_set, boot, last_seq, oob>>

\* (mutants) the comparison also filters the threshold level itself; the ready
\* flag is not tested
Filtered_ge(level) == debug_ctx.initialized = 0 \/ level >= debug_ctx.level
Filtered_noready(level) == level > debug_ctx.level

\* debug_log, the early exit: the engine is not ready or the level is filtered
Filtered(level) == debug_ctx.initialized = 0 \/ level > debug_ctx.level

\* first composition step of debug_log under the build configuration
AfterMeta == IF cfg.seq THEN "seq_lock" ELSE IF cfg.ts THEN "fmt_ts"
             ELSE IF cfg.thread THEN "fmt_thread" ELSE "fmt_level"
AfterSeq == IF cfg.ts THEN "fmt_ts" ELSE IF cfg.thread THEN "fmt_thread" ELSE "fmt_level"
AfterTs == IF cfg.thread THEN "fmt_thread" ELSE "fmt_level"

\* (mutant) another context name is the default
DefaultThread_task == STR_TASK

\* the context name debug_log starts with
DefaultThread == STR_MAIN

\* debug_log(level, fmt, ...) up to the filter; len is the formatted length of fmt
debug_log(p, level, len) ==
  /\ Enter(p, "debug_log")
  /\ LET f == [NoFrame EXCEPT !.op = "debug_log", !.level = level, !.len = len]
     IN  IF Filtered(level)
         THEN Finish(p, 0) /\ frame' = [frame EXCEPT ![p] = Popped(f)]
         ELSE Goto(p, "log_meta") /\ frame' = [frame EXCEPT ![p] = f]
  /\ UNCHANGED <<debug_ctx, log_sequence_no, s_buffer, debug_mutex, mutex_holder,
                 tick, static, init_ret, init_trace, level_set, boot, last_seq, oob>>

\* debug_log: the timestamp and the context name. The kernel's tick interrupt
\* counts on between two readings of the tick count.
log_meta(p) ==
  /\ pc[p] = "log_meta" /\ Runs(p)
  /\ LET has_ts == cfg.ts /\ debug_ctx.debug_port /\ port.get_timestamp
         has_nm == cfg.thread /\ debug_ctx.debug_port /\ port.get_thread_name
     IN  /\ tick' \in IF has_ts THEN tick..(IF env.ticking THEN MaxTick ELSE tick) ELSE {tick}
         /\ frame' = [frame EXCEPT
                        ![p].ts = IF has_ts THEN get_timestamp(p, tick') ELSE 0,
                        ![p].thread = IF has_nm THEN get_thread_name(p) ELSE DefaultThread]
         /\ Note(p, (IF has_ts THEN <<"get_timestamp">> ELSE << >>) \o
                    (IF has_nm THEN <<"get_thread_name">> ELSE << >>))
  /\ Goto(p, AfterMeta)
  /\ UNCHANGED <<debug_ctx, log_sequence_no, s_buffer, debug_mutex, mutex_holder,
                 static, tx, budget, init_ret, init_trace, level_set, boot, last_seq, last, oob>>

\* debug_next_sequence: lock()
seq_lock(p) ==
  /\ pc[p] = "seq_lock" /\ Runs(p)
  /\ CanLock(p)
  /\ mutex_holder' = AfterLock(p)
  /\ Note(p, IF HasLock THEN <<"lock">> ELSE << >>)
  /\ Goto(p, "seq_read")
  /\ UNCHANGED <<debug_ctx, log_sequence_no, s_buffer, debug_mutex, tick, static,
                 frame, tx, budget, init_ret, init_trace, level_set, boot, last_seq, last, oob>>

\* debug_next_sequence: ++log_sequence_no, the load
seq_read(p) ==
  /\ pc[p] = "seq_read" /\ Runs(p)
  /\ frame' = [frame EXCEPT ![p].tmp = log_sequence_no]
  /\ Goto(p, "seq_write")
  /\ UNCHANGED <<debug_ctx, log_sequence_no, s_buffer, debug_mutex, mutex_holder,
                 tick, static, trace, tx, budget, init_ret, init_trace, level_set, boot,
                 last_seq, last, oob>>

\* debug_next_sequence: ++log_sequence_no, the store, and seq = the new value
seq_write(p) ==
  /\ pc[p] = "seq_write" /\ Runs(p)
  /\ log_sequence_no' = U32Inc(frame[p].tmp)
  /\ frame' = [frame EXCEPT ![p].seq = U32Inc(frame[p].tmp)]
  /\ last_seq' = U32Inc(frame[p].tmp)
  /\ Goto(p, "seq_unlock")
  /\ UNCHANGED <<debug_ctx, s_buffer, debug_mutex, mutex_holder, tick, static,
                 trace, tx, budget, init_ret, init_trace, level_set, boot, last, oob>>

\* debug_next_sequence: unlock() and return
seq_unlock(p) ==
  /\ pc[p] = "seq_unlock" /\ Runs(p)
  /\ mutex_holder' = AfterUnlock(p)
  /\ Note(p, IF HasUnlock THEN <<"unlock">> ELSE << >>)
  /\ Goto(p, "fmt_seq")
  /\ UNCHANGED <<debug_ctx, log_sequence_no, s_buffer, debug_mutex, tick, static,
                 frame, tx, budget, init_ret, init_trace, level_set, boot, last_seq, last, oob>>


\* sizeof(s_buffer) - n, a size_t
Remaining(n) == U32Sub(DEBUG_BUFFER_SIZE, n)

\* (mutant) a value that is none of the four levels counts as LOG_DEBUG
level_str_debug(level) ==
  IF level = LOG_ERROR THEN STR_ERROR
  ELSE IF level = LOG_WARN THEN STR_WARN
  ELSE IF level = LOG_INFO THEN STR_INFO
  ELSE STR_DEBUG

\* the severity tag of a level
level_str(level) ==
  IF level = LOG_ERROR THEN STR_ERROR
  ELSE IF level = LOG_WARN THEN STR_WARN
  ELSE IF level = LOG_INFO THEN STR_INFO
  ELSE IF level = LOG_DEBUG THEN STR_DEBUG
  ELSE STR_LOG

\* (mutant) the level tag is not followed by a space
LevelSegment_nospace(level) == Bracket(level_str(level))

\* "[%s] " with the level's name
LevelSegment(level) == Bracket(level_str(level)) \o <<32>>

\* one snprintf(&s_buffer[n], sizeof(s_buffer) - n, ...) of debug_log; add says
\* whether the result is added to n. A store past the array is undefined
\* behaviour: the context stops at "undefined" and oob is raised.
Emit(p, text, add, next) ==
  LET n    == frame[p].n
      size == Remaining(n)
      bad  == Overflows(DEBUG_BUFFER_SIZE, n, size, text)
  IN  /\ s_buffer' = snprintf(s_buffer, n, size, text)
      /\ oob' = (oob \/ bad)
      /\ frame' = [frame EXCEPT ![p].n = IF add THEN n + Len(text) ELSE n]
      /\ Goto(p, IF bad THEN "undefined" ELSE next)
      /\ UNCHANGED <<debug_ctx, log_sequence_no, debug_mutex, mutex_holder, tick,
                     static, trace, tx, budget, init_ret, init_trace, level_set, boot, last_seq, last>>

fmt_seq(p) ==
  /\ pc[p] = "fmt_seq" /\ Runs(p)
  /\ Emit(p, SeqSegment(frame[p].seq), TRUE, AfterSeq)

fmt_ts(p) ==
  /\ pc[p] = "fmt_ts" /\ Runs(p)
  /\ Emit(p, TsSegment(U32(frame[p].ts)), TRUE, AfterTs)

fmt_thread(p) ==
  /\ pc[p] = "fmt_thread" /\ Runs(p)
  /\ Emit(p, ThreadSegment(frame[p].thread), TRUE, "fmt_level")

fmt_level(p) ==
  /\ pc[p] = "fmt_level" /\ Runs(p)
  /\ Emit(p, LevelSegment(frame[p].level), TRUE, "fmt_msg")

\* vsnprintf(&s_buffer[n], sizeof(s_buffer) - n, fmt, args): n is not advanced
fmt_msg(p) ==
  /\ pc[p] = "fmt_msg" /\ Runs(p)
  /\ Emit(p, Text(p, frame[p].len), FALSE, "fmt_cat")

\* the count handed to strncat: sizeof(s_buffer) - strlen(s_buffer) - 1, a size_t
CatCount(buf) ==
  LET sz == U32Sub(DEBUG_BUFFER_SIZE, StrLen(buf) + 1)
  IN  IF sz.hi > 0 THEN HALF ELSE sz.lo

\* strncat(s_buffer, "\r\n", ...), then debug_write(s_buffer) is entered
fmt_cat(p) ==
  /\ pc[p] = "fmt_cat" /\ Runs(p)
  /\ LET bad == StrLen(s_buffer) + Min(2, CatCount(s_buffer)) + 1 > DEBUG_BUFFER_SIZE
     IN  /\ s_buffer' = strncat(s_buffer, CRLF, CatCount(s_buffer))
         /\ oob' = (oob \/ bad)
         /\ frame' = [frame EXCEPT ![p].src = "s_buffer"]
         /\ Goto(p, IF bad THEN "undefined" ELSE "write_check")
  /\ UNCHANGED <<debug_ctx, log_sequence_no, debug_mutex, mutex_holder, tick,
                 static, trace, tx, budget, init_ret, init_trace, level_set, boot, last_seq, last>>

(* debug_write *)
\* the string debug_write was handed: the caller's own text or the format buffer
Source(p) == IF frame[p].src = "s_buffer" THEN StrOf(s_buffer)
             ELSE Text(p, frame[p].len)

\* debug_write(str), called by the application; null says str is absent
debug_write(p, null, len) ==
  /\ Enter(p, "debug_write")
  /\ frame' = [frame EXCEPT ![p] = [NoFrame EXCEPT !.op = "debug_write",
                                     !.null = null, !.len = len, !.src = "user"]]
  /\ Goto(p, "write_check")
  /\ UNCHANGED <<debug_ctx, log_sequence_no, s_buffer, debug_mutex, mutex_holder,
                 tick, static, init_ret, init_trace, level_set, boot, last_seq, oob>>

\* (mutant) the text reference is not tested
Refused_nonull(p) == debug_ctx.initialized = 0 \/ ~debug_ctx.transport \/ ~hal.write

\* (mutant) the ready flag is not tested
Refused_noready(p) == ~debug_ctx.transport \/ ~hal.write \/ frame[p].null

\* debug_write refuses the call
Refused(p) ==
  \/ debug_ctx.initialized = 0
  \/ ~debug_ctx.transport
  \/ ~hal.write
  \/ frame[p].null

write_check(p) ==
  /\ pc[p] = "write_check" /\ Runs(p)
  /\ IF Refused(p) THEN Finish(p, 0 - 1) /\ Pop(p)
     ELSE Goto(p, "write_lock") /\ UNCHANGED frame
  /\ UNCHANGED <<debug_ctx, log_sequence_no, s_buffer, debug_mutex, mutex_holder,
                 tick, static, trace, tx, budget, init_ret, init_trace, level_set, boot, last_seq, last,
                 oob>>

write_lock(p) ==
  /\ pc[p] = "write_lock" /\ Runs(p)
  /\ CanLock(p)
  /\ mutex_holder' = AfterLock(p)
  /\ Note(p, IF HasLock THEN <<"lock">> ELSE << >>)
  /\ Goto(p, "write_call")
  /\ UNCHANGED <<debug_ctx, log_sequence_no, s_buffer, debug_mutex, tick, static,
                 frame, tx, budget, init_ret, init_trace, level_set, boot, last_seq, last, oob>>

\* the channel's write is entered with str and strlen(str)
write_call(p) ==
  /\ pc[p] = "write_call" /\ Runs(p)
  /\ frame' = [frame EXCEPT ![p].wlen = Len(Source(p))]
  /\ Note(p, <<"write">>)
  /\ Goto(p, "write_tx")
  /\ UNCHANGED <<debug_ctx, log_sequence_no, s_buffer, debug_mutex, mutex_holder,
                 tick, static, tx, budget, init_ret, init_trace, level_set, boot, last_seq, last, oob>>

\* the bytes the channel reads: wlen bytes starting at str
Sent(p) ==
  IF frame[p].src = "s_buffer"
  THEN [i \in 1..frame[p].wlen |-> s_buffer[i - 1]]
  ELSE Text(p, frame[p].len)

\* the channel's write transmits and returns; driver_ok is the driver's verdict
write_tx(p, driver_ok) ==
  /\ pc[p] = "write_tx" /\ Runs(p)
  /\ tx' = [tx EXCEPT ![p] = Append(tx[p], Sent(p))]
  /\ frame' = [frame EXCEPT
                 ![p].r = transport_write(TRUE, frame[p].wlen, driver_ok),
                 ![p].drv = IF ~driver_called(TRUE, frame[p].wlen) THEN "none"
                            ELSE IF driver_ok THEN "OK" ELSE "BUSY"]
  /\ Goto(p, "write_unlock")
  /\ UNCHANGED <<debug_ctx, log_sequence_no, s_buffer, debug_mutex, mutex_holder,
                 tick, static, trace, budget, init_ret, init_trace, level_set, boot, last_seq, last, oob>>

\* (mutant) a failed write is reported as nothing written
WriteResult_swallow(r) == IF r < 0 THEN 0 ELSE r

\* what debug_write returns after the channel's write returned r
WriteResult(r) == r

write_unlock(p) ==
  /\ pc[p] = "write_unlock" /\ Runs(p)
  /\ mutex_holder' = AfterUnlock(p)
  /\ Note(p, IF HasUnlock THEN <<"unlock">> ELSE << >>)
  /\ Finish(p, WriteResult(frame[p].r))
  /\ Pop(p)
  /\ UNCHANGED <<debug_ctx, log_sequence_no, s_buffer, debug_mutex, tick, static,
                 tx, budget, init_ret, init_trace, level_set, boot, last_seq, last, oob>>


(* debug_printf *)
\* (mutant) the template reference is not tested
PrintfRefused_nonull(null) == debug_ctx.initialized = 0

\* debug_printf refuses the call
PrintfRefused(null) == debug_ctx.initialized = 0 \/ null

\* debug_printf(fmt, ...) up to the argument check; null says fmt is absent, len is
\* what vsnprintf will return for fmt (negative: a formatting error)
debug_printf(p, null, len) ==
  /\ Enter(p, "debug_printf")
  /\ LET f == [NoFrame EXCEPT !.op = "debug_printf", !.null = null, !.len = len]
     IN  IF PrintfRefused(null)
         THEN Finish(p, 0 - 1) /\ frame' = [frame EXCEPT ![p] = Popped(f)]
         ELSE Goto(p, "printf_fmt") /\ frame' = [frame EXCEPT ![p] = f]
  /\ UNCHANGED <<debug_ctx, log_sequence_no, s_buffer, debug_mutex, mutex_holder,
                 tick, static, init_ret, init_trace, level_set, boot, last_seq, oob>>

\* (mutant) the text is stored whole, with no regard for the capacity
Formatted_nocut(buf, text) == Store(buf, 0, text \o <<NUL>>)

\* the buffer after vsnprintf(s_buffer, sizeof(s_buffer), fmt, args) returned len
\* and, for len >= sizeof(s_buffer), the forced terminator
Formatted(buf, text) ==
  LET b == snprintf(buf, 0, U32(DEBUG_BUFFER_SIZE), text)
  IN  IF Len(text) > 0 /\ Len(text) >= DEBUG_BUFFER_SIZE
      THEN [b EXCEPT ![DEBUG_BUFFER_SIZE - 1] = NUL]
      ELSE b

\* (mutant) only a negative length ends the call
FormatFailed_neg(len) == len < 0

\* debug_printf returns the length at once: if (len <= 0) return len;
FormatFailed(len) == len <= 0

\* debug_printf: format, then return len (<= 0) or enter debug_write(s_buffer)
printf_fmt(p) ==
  /\ pc[p] = "printf_fmt" /\ Runs(p)
  /\ s_buffer' = IF frame[p].len < 0 THEN s_buffer
                 ELSE Formatted(s_buffer, Text(p, frame[p].len))
  /\ IF FormatFailed(frame[p].len)
     THEN Finish(p, frame[p].len) /\ Pop(p)
     ELSE Goto(p, "write_check") /\ frame' = [frame EXCEPT ![p].src = "s_buffer"]
  /\ UNCHANGED <<debug_ctx, log_sequence_no, debug_mutex, mutex_holder, tick,
                 static, trace, tx, budget, init_ret, init_trace, level_set, boot, last_seq, last, oob>>

(* start-up and shut-down of the layers under the engine *)
\* (mutant) an absent hook counts as a failure
BootResult_absent_fails(present, has, res) == IF ~present \/ ~has THEN 0 - 1 ELSE res

\* what debug_transport_init, debug_transport_deinit, debug_port_init and
\* debug_port_deinit return: present says that the descriptor is there, has that
\* the hook is there, res is what the hook returns when it is invoked
BootResult(present, has, res) == IF ~present THEN 0 - 1 ELSE IF has THEN res ELSE 0

\* the hook is invoked
BootHook(present, has) == present /\ has

\* the application calls one of the four functions between emission calls
BootCall(fn) ==
  /\ \A p \in Callers : pc[p] = "idle"
  /\ ~oob /\ budget > 0
  /\ budget' = budget - 1
  /\ last' = [who |-> NoHolder, op |-> fn]

\* the call returns r after the hooks and kernel calls listed
Booted(fn, present, hooks, kernel, r) ==
  boot' = Append(boot, [fn |-> fn, present |-> present, hooks |-> hooks,
                        kernel |-> kernel, r |-> r])

\* debug_transport_init(transport): the operation table is copied and the init
\* hook invoked; tres is what the hook returns
debug_transport_init(present, tres) ==
  /\ BootCall("debug_transport_init")
  /\ Booted("debug_transport_init", present,
            IF BootHook(present, hal.init)
            THEN <<[hook |-> "transport.init", r |-> tres]>> ELSE << >>,
            << >>, BootResult(present, hal.init, tres))
  /\ UNCHANGED <<debug_ctx, log_sequence_no, s_buffer, debug_mutex, mutex_holder,
                 tick, static, pc, frame, ret, trace, tx, init_ret, init_trace,
                 last_seq, oob, level_set>>

\* debug_transport_deinit(transport)
debug_transport_deinit(present, tres) ==
  /\ BootCall("debug_transport_deinit")
  /\ Booted("debug_transport_deinit", present,
            IF BootHook(present, hal.deinit)
            THEN <<[hook |-> "transport.deinit", r |-> tres]>> ELSE << >>,
            << >>, BootResult(present, hal.deinit, tres))
  /\ UNCHANGED <<debug_ctx, log_sequence_no, s_buffer, debug_mutex, mutex_holder,
                 tick, static, pc, frame, ret, trace, tx, init_ret, init_trace,
                 last_seq, oob, level_set>>

\* the kinds of port whose hooks use the kernel's mutex
FreeRTOSKinds == {"freertos", "freertos_v1_0"}

\* what the init hook of the port returns; pres = 0 says that its work (on
\* FreeRTOS: xSemaphoreCreateMutex) succeeded. Version 1.0 of the FreeRTOS port
\* returns 0 whatever happened.
PortInitResult(pres) == IF port.kind = "freertos_v1_0" THEN 0 ELSE pres

\* what the deinit hook of the port returns: 0 on FreeRTOS
PortDeinitResult(pres) == IF port.kind \in FreeRTOSKinds THEN 0 ELSE pres

\* debug_port_init(port): the operation table is copied and the init hook
\* invoked. Version 1.0 of the FreeRTOS port calls xSemaphoreGive on the new
\* handle, also when it is NULL: the call returns or the program stops.
debug_port_init(present, pres, stops) ==
  /\ BootCall("debug_port_init")
  /\ LET called == BootHook(present, port.init)
         r == PortInitResult(pres)
     IN  /\ Booted("debug_port_init", present,
                   IF called THEN <<[hook |-> "port.init", r |-> r]>> ELSE << >>,
                   IF called /\ port.kind \in FreeRTOSKinds
                   THEN <<"xSemaphoreCreateMutex">> ELSE << >>,
                   BootResult(present, port.init, r))
         /\ debug_mutex' = IF called /\ port.kind \in FreeRTOSKinds
                           THEN (IF pres = 0 THEN "mutex" ELSE "NULL")
                           ELSE debug_mutex
         /\ oob' = (called /\ port.kind = "freertos_v1_0" /\ pres # 0 /\ stops)
  /\ UNCHANGED <<debug_ctx, log_sequence_no, s_buffer, mutex_holder,
                 tick, static, pc, frame, ret, trace, tx, init_ret, init_trace,
                 last_seq, level_set>>

\* debug_port_deinit(port): the deinit hook is invoked. The FreeRTOS port deletes
\* the mutex if there is one and forgets the handle; version 1.0 calls
\* vSemaphoreDelete on whatever the handle is and keeps it: on a handle that is
\* no mutex the call returns or the program stops.
debug_port_deinit(present, pres, stops) ==
  /\ BootCall("debug_port_deinit")
  /\ LET called == BootHook(present, port.deinit)
         r == PortDeinitResult(pres)
         deletes == called /\ \/ port.kind = "freertos" /\ debug_mutex # "NULL"
                              \/ port.kind = "freertos_v1_0"
     IN  /\ Booted("debug_port_deinit", present,
                   IF called THEN <<[hook |-> "port.deinit", r |-> r]>> ELSE << >>,
                   IF deletes THEN <<"vSemaphoreDelete">> ELSE << >>,
                   BootResult(present, port.deinit, r))
         /\ debug_mutex' = IF called /\ port.kind = "freertos" THEN "NULL"
                           ELSE IF deletes /\ debug_mutex = "mutex" THEN "deleted"
                           ELSE debug_mutex
         /\ oob' = (deletes /\ debug_mutex # "mutex" /\ stops)
  /\ UNCHANGED <<debug_ctx, log_sequence_no, s_buffer, mutex_holder,
                 tick, static, pc, frame, ret, trace, tx, init_ret, init_trace,
                 last_seq, level_set>>

(* ---------------------------- specifications --------------------------- *)

Next ==
  \/ \E trns \in env.trns, prt \in env.prt, tres \in env.tres, pres \in env.pres :
       debug_init(trns, prt, tres, pres)
  \/ \E p \in Callers, level \in env.thresholds : debug_set_level(p, level)
  \/ \E p \in Callers : debug_get_level(p)
  \/ \E p \in Callers, level \in env.levels, len \in env.lens : debug_log(p, level, len)
  \/ \E p \in Callers : log_meta(p)
  \/ \E p \in Callers : seq_lock(p)
  \/ \E p \in Callers : seq_read(p)
  \/ \E p \in Callers : seq_write(p)
  \/ \E p \in Callers : seq_unlock(p)
  \/ \E p \in Callers : fmt_seq(p)
  \/ \E p \in Callers : fmt_ts(p)
  \/ \E p \in Callers : fmt_thread(p)
  \/ \E p \in Callers : fmt_level(p)
  \/ \E p \in Callers : fmt_msg(p)
  \/ \E p \in Callers : fmt_cat(p)
  \/ \E p \in Callers, null \in env.nulls, len \in env.lens : debug_write(p, null, len)
  \/ \E p \in Callers : write_check(p)
  \/ \E p \in Callers : write_lock(p)
  \/ \E p \in Callers : write_call(p)
  \/ \E p \in Callers, driver_ok \in env.driver : write_tx(p, driver_ok)
  \/ \E p \in Callers : write_unlock(p)
  \/ \E p \in Callers, null \in env.nulls, len \in env.lens \cup env.errs :
       debug_printf(p, null, len)
  \/ \E p \in Callers : printf_fmt(p)
  \/ \E present \in env.boot, tres \in env.tres : debug_transport_init(present, tres)
  \/ \E present \in env.boot, tres \in env.tres : debug_transport_deinit(present, tres)
  \/ \E present \in env.boot, pres \in env.pres, stops \in BOOLEAN :
       debug_port_init(present, pres, stops)
  \/ \E present \in env.boot, pres \in env.pres, stops \in BOOLEAN :
       debug_port_deinit(present, pres, stops)

\* the shipped operation tables: every hook present
FreeRTOSPort == [kind |-> "freertos", init |-> TRUE, deinit |-> TRUE, lock |-> TRUE,
                 unlock |-> TRUE, get_timestamp |-> TRUE, get_thread_name |-> TRUE]
BaremetalPort == [kind |-> "baremetal", init |-> TRUE, deinit |-> TRUE, lock |-> TRUE,
                  unlock |-> TRUE, get_timestamp |-> TRUE, get_thread_name |-> TRUE]
ShippedHal == [init |-> TRUE, deinit |-> TRUE, write |-> TRUE]
\* an operation table of the application's own, without lock and unlock hooks
NoLockPort == [BaremetalPort EXCEPT !.lock = FALSE, !.unlock = FALSE]

\* a task name of k letters for every task
TaskNames(k) == [p \in Callers |-> [i \in 1..k |-> 65 + ((p + i) % 26)]]

\* build configurations (config.h): every field enabled as shipped, and the
\* sequence number and level tag only
FullCfg(size) == [size |-> size, seq |-> TRUE, ts |-> TRUE, thread |-> TRUE]
SeqCfg(size) == [size |-> size, seq |-> TRUE, ts |-> FALSE, thread |-> FALSE]

\* an application that starts the engine once and lets its tasks emit short texts
PlainEnv ==
  [callers |-> Tasks, trns |-> {TRUE}, prt |-> {TRUE}, tres |-> {0}, pres |-> {0},
   thresholds |-> {LOG_DEBUG}, levels |-> {LOG_INFO}, lens |-> {1}, errs |-> {},
   nulls |-> {FALSE}, driver |-> {TRUE}, ticking |-> FALSE, boom |-> FALSE,
   boot |-> {}]

\* an application that only starts and stops the layers under the engine
StartStopScenario ==
  [cfg |-> FullCfg(32), hal |-> ShippedHal, port |-> FreeRTOSPort,
   names |-> TaskNames(1),
   env |-> [PlainEnv EXCEPT !.callers = {}, !.trns = {}, !.prt = {}, !.boot = {TRUE}]]

\* the state after the program is loaded: statics are zero. A scenario is a build
\* configuration, the descriptors handed to debug_init, the task names and what
\* the application does.
Loaded(Scenarios) ==
  /\ \E s \in Scenarios :
       cfg = s.cfg /\ hal = s.hal /\ port = s.port /\ names = s.names /\ env = s.env
  /\ debug_ctx = [transport |-> FALSE, debug_port |-> FALSE, level |-> 0,
                  initialized |-> 0]
  /\ log_sequence_no = U32Zero
  /\ s_buffer = [i \in 0..cfg.size - 1 |-> NUL]
  /\ debug_mutex = "NULL"
  /\ mutex_holder = NoHolder
  /\ tick = 0
  /\ pc = [p \in Callers |-> "idle"]
  /\ frame = [p \in Callers |-> NoFrame]
  /\ ret = [p \in Callers |-> 0]
  /\ trace = [p \in Callers |-> << >>]
  /\ tx = [p \in Callers |-> << >>]
  /\ budget = MaxCalls
  /\ init_ret = 0
  /\ level_set = 0
  /\ init_trace = << >>
  /\ last_seq = U32Zero
  /\ last = [who |-> NoHolder, op |-> "none"]
  /\ oob = FALSE
  /\ boot = << >>

\* the same, the application that only starts and stops the layers included
InitWith(Scenarios) == Loaded(Scenarios \cup {StartStopScenario})

\* concurrent tasks on the FreeRTOS port
ConcScenario ==
  [cfg |-> SeqCfg(16), hal |-> ShippedHal, port |-> FreeRTOSPort,
   names |-> TaskNames(1), env |-> PlainEnv]

\* one task on the FreeRTOS port, every field of the line enabled
SoloScenario ==
  [cfg |-> FullCfg(32), hal |-> ShippedHal, port |-> FreeRTOSPort,
   names |-> TaskNames(1),
   env |-> [PlainEnv EXCEPT !.callers = {1}, !.ticking = TRUE]]

Init == InitWith({ConcScenario, SoloScenario})

Spec == Init /\ [][Next]_vars


\* a step of context p inside a call
Step(p) ==
  \/ seq_lock(p) \/ write_lock(p)
  \/ log_meta(p) \/ seq_read(p) \/ seq_write(p) \/ seq_unlock(p)
  \/ fmt_seq(p) \/ fmt_ts(p) \/ fmt_thread(p) \/ fmt_level(p) \/ fmt_msg(p)
  \/ fmt_cat(p) \/ write_check(p) \/ write_call(p)
  \/ (\E driver_ok \in env.driver : write_tx(p, driver_ok))
  \/ write_unlock(p) \/ printf_fmt(p)

\* the scheduler runs every context that can go on, the channel's write returns,
\* and the mutex is granted fairly: a context that waits for it gets it
Fairness == \A p \in Tasks : SF_vars(Step(p))

\* the scenarios of Spec, taken up when the first call of the application,
\* debug_init, has returned success; the concurrent tasks do not call it again
LiveScenarios ==
  { [ConcScenario EXCEPT !.env.trns = {}], SoloScenario }

InitLive ==
  /\ \E s \in LiveScenarios \cup {StartStopScenario} :
       cfg = s.cfg /\ hal = s.hal /\ port = s.port /\ names = s.names /\ env = s.env
  /\ debug_ctx = [transport |-> TRUE, debug_port |-> TRUE, level |-> LOG_DEBUG,
                  initialized |-> 1]
  /\ log_sequence_no = U32Zero
  /\ s_buffer = [i \in 0..cfg.size - 1 |-> NUL]
  /\ debug_mutex = "mutex"
  /\ mutex_holder = NoHolder
  /\ tick = 0
  /\ pc = [p \in Callers |-> "idle"]
  /\ frame = [p \in Callers |-> NoFrame]
  /\ ret = [p \in Callers |-> 0]
  /\ trace = [p \in Callers |-> << >>]
  /\ tx = [p \in Callers |-> << >>]
  /\ budget = MaxLiveCalls
  /\ init_ret = 0
  /\ level_set = LOG_DEBUG
  /\ init_trace = <<[hook |-> "transport.init", r |-> 0],
                    [hook |-> "port.init", r |-> 0]>>
  /\ last_seq = U32Zero
  /\ last = [who |-> NoHolder, op |-> "debug_init", trns |-> TRUE, prt |-> TRUE]
  /\ oob = FALSE
  /\ boot = << >>

SpecLive == InitLive /\ [][Next]_vars /\ Fairness


(* One calling context: what a call does on its own *)
LevelCfg(size) == [size |-> size, seq |-> FALSE, ts |-> FALSE, thread |-> FALSE]

\* an application with one task that uses every level and every threshold
FilterEnv ==
  [PlainEnv EXCEPT !.callers = {1}, !.thresholds = LOG_ERROR..LOG_DEBUG,
                   !.levels = LOG_ERROR..LOG_DEBUG]

\* an application with one task that emits texts of every length up to MaxMsgLen
\* and absent arguments, with init hooks that may fail and a driver that may
\* refuse a transfer
FaultEnv ==
  [PlainEnv EXCEPT !.callers = {1}, !.tres = {0, 0 - 1}, !.pres = {0, 0 - 1},
                   !.lens = 0..MaxMsgLen, !.errs = {0 - 1}, !.nulls = BOOLEAN,
                   !.driver = BOOLEAN, !.ticking = TRUE]

SeqScenarios ==
  { [cfg |-> FullCfg(32), hal |-> ShippedHal, port |-> q, names |-> TaskNames(2),
     env |-> e] : q \in {FreeRTOSPort, BaremetalPort}, e \in {FilterEnv, FaultEnv} }
  \cup
  { [cfg |-> FullCfg(32), hal |-> ShippedHal, port |-> NoLockPort,
     names |-> TaskNames(2), env |-> FaultEnv] }
  \cup
  { [cfg |-> SeqCfg(24), hal |-> ShippedHal, port |-> FreeRTOSPort,
     names |-> TaskNames(2), env |-> FilterEnv] }

InitSeq == InitWith(SeqScenarios)

SpecSeq == InitSeq /\ [][Next]_vars


(* One calling context and small buffers: truncation and capacity *)
\* an application with one task that emits texts of every length up to MaxMsgLen
BufEnv ==
  [PlainEnv EXCEPT !.callers = {1}, !.levels = {LOG_ERROR, LOG_WARN},
                   !.lens = 0..MaxMsgLen]

BufScenarios ==
  { [cfg |-> LevelCfg(size), hal |-> ShippedHal, port |-> BaremetalPort,
     names |-> TaskNames(2), env |-> BufEnv] : size \in {1, 3, 6, 10, 12} }
  \cup
  { [cfg |-> FullCfg(size), hal |-> ShippedHal, port |-> FreeRTOSPort,
     names |-> TaskNames(k), env |-> BufEnv] :
      size \in {16, 28}, k \in {2, 20} }

InitBuf == InitWith(BufScenarios)

SpecBuf == InitBuf /\ [][Next]_vars


(* One calling context: starting the engine *)
\* operation tables of the application's own, without an init hook
NoInitHal == [ShippedHal EXCEPT !.init = FALSE]
NoInitPort == [BaremetalPort EXCEPT !.init = FALSE]

\* an application with one task that hands debug_init present and absent
\* references, has init hooks that may fail, and emits before and after
InitEnv ==
  [PlainEnv EXCEPT !.callers = {1}, !.trns = BOOLEAN, !.prt = BOOLEAN,
                   !.tres = {0, 0 - 1}, !.pres = {0, 0 - 1},
                   !.thresholds = {LOG_WARN}, !.levels = {LOG_ERROR},
                   !.nulls = BOOLEAN]

InitScenarios ==
  { [cfg |-> FullCfg(32), hal |-> h, port |-> q, names |-> TaskNames(2),
     env |-> InitEnv] :
      h \in {ShippedHal, NoInitHal}, q \in {FreeRTOSPort, BaremetalPort, NoInitPort} }

InitInit == InitWith(InitScenarios)

SpecInit == InitInit /\ [][Next]_vars


(* A task and an interrupt handler on the FreeRTOS port *)
IsrScenario ==
  [cfg |-> FullCfg(32), hal |-> ShippedHal, port |-> FreeRTOSPort,
   names |-> TaskNames(1), env |-> [PlainEnv EXCEPT !.callers = {ISR, 1}]]

InitIsr == InitWith({IsrScenario})

SpecIsr == InitIsr /\ [][Next]_vars


(* One calling context after long uptime: the sequence counter near its end *)
\* an application with one task that logs at two levels under two thresholds
WrapEnv ==
  [PlainEnv EXCEPT !.callers = {1}, !.thresholds = {LOG_WARN, LOG_DEBUG},
                   !.levels = {LOG_ERROR, LOG_INFO}]

WrapScenarios ==
  { [cfg |-> c, hal |-> ShippedHal, port |-> FreeRTOSPort, names |-> TaskNames(1),
     env |-> WrapEnv] : c \in {SeqCfg(32), FullCfg(48)} }

\* the line debug_log composes under the build configuration
LogLine(seq, ts, name, level, text) ==
  (IF cfg.seq THEN SeqSegment(seq) ELSE << >>) \o
  (IF cfg.ts THEN TsSegment(U32(ts)) ELSE << >>) \o
  (IF cfg.thread THEN ThreadSegment(name) ELSE << >>) \o
  LevelSegment(level) \o text \o CRLF

\* the value of the counter the model is taken up at: 2^32 - 2
Uptime == [hi |-> HALF - 1, lo |-> HALF - 2]

\* the line of call number Uptime: debug_log(LOG_ERROR, ...) of task 1 with a
\* text of one letter, at tick 0
UptimeLine == LogLine(Uptime, 0, names[1], LOG_ERROR, Text(1, 1))

\* the state after debug_init and Uptime non-filtered debug_log calls of task 1
InitWrap ==
  /\ \E s \in WrapScenarios \cup {StartStopScenario} :
       cfg = s.cfg /\ hal = s.hal /\ port = s.port /\ names = s.names /\ env = s.env
  /\ debug_ctx = [transport |-> TRUE, debug_port |-> TRUE, level |-> LOG_DEBUG,
                  initialized |-> 1]
  /\ log_sequence_no = Uptime
  /\ s_buffer = Store([i \in 0..cfg.size - 1 |-> NUL], 0, UptimeLine \o <<NUL>>)
  /\ debug_mutex = "mutex"
  /\ mutex_holder = NoHolder
  /\ tick = 0
  /\ pc = [p \in Callers |-> "idle"]
  /\ frame = [p \in Callers |->
               IF p = 1 THEN [NoFrame EXCEPT !.op = "debug_log", !.level = LOG_ERROR]
               ELSE NoFrame]
  /\ ret = [p \in Callers |->
             IF p = 1 THEN Len(UptimeLine) ELSE 0]
  /\ trace = [p \in Callers |->
               IF p = 1
               THEN (IF cfg.ts THEN <<"get_timestamp">> ELSE << >>) \o
                    (IF cfg.thread THEN <<"get_thread_name">> ELSE << >>) \o
                    <<"lock", "unlock", "lock", "write", "unlock">>
               ELSE << >>]
  /\ tx = [p \in Callers |->
            IF p = 1 THEN <<UptimeLine>> ELSE << >>]
  /\ budget = MaxCalls
  /\ init_ret = 0
  /\ level_set = LOG_DEBUG
  /\ init_trace = <<[hook |-> "transport.init", r |-> 0],
                    [hook |-> "port.init", r |-> 0]>>
  /\ last_seq = Uptime
  /\ last = [who |-> 1, op |-> "debug_log"]
  /\ oob = FALSE
  /\ boot = << >>

SpecWrap == InitWrap /\ [][Next]_vars


(* One calling context on a freshly started engine *)
\* an application with one task that sets the threshold to LOG_WARN and logs
\* "boom" at LOG_INFO and at LOG_ERROR
BoomEnv ==
  [PlainEnv EXCEPT !.callers = {1}, !.thresholds = {LOG_WARN},
                   !.levels = {LOG_INFO, LOG_ERROR}, !.lens = {Len(STR_BOOM)},
                   !.boom = TRUE]

FreshScenarios ==
  { [cfg |-> SeqCfg(24), hal |-> ShippedHal, port |-> q, names |-> TaskNames(2),
     env |-> BoomEnv] : q \in {FreeRTOSPort, BaremetalPort} }
  \cup
  { [cfg |-> FullCfg(32), hal |-> ShippedHal, port |-> FreeRTOSPort,
     names |-> TaskNames(2), env |-> FilterEnv] }

InitFresh == InitWith(FreshScenarios)

SpecFresh == InitFresh /\ [][Next]_vars


(* One calling context under every build configuration of the line's fields *)
\* an application with one task that logs at every level, short and long texts
LineEnv ==
  [PlainEnv EXCEPT !.callers = {1}, !.levels = LOG_ERROR..LOG_DEBUG,
                   !.lens = {0, MaxMsgLen}, !.ticking = TRUE]

LineScenarios ==
  { [cfg |-> [size |-> 40, seq |-> a, ts |-> b, thread |-> c], hal |-> ShippedHal,
     port |-> FreeRTOSPort, names |-> TaskNames(2), env |-> LineEnv] :
      a \in BOOLEAN, b \in BOOLEAN, c \in BOOLEAN }

InitLine == InitWith(LineScenarios)

SpecLine == InitLine /\ [][Next]_vars


(* One calling context: absent arguments and a channel that cannot write *)
\* a transport descriptor of the application's own, without a write hook
NoWriteHal == [ShippedHal EXCEPT !.write = FALSE]

\* an application with one task that hands over absent texts and templates and
\* templates whose formatting fails
ArgEnv ==
  [PlainEnv EXCEPT !.callers = {1}, !.lens = {0, 1}, !.errs = {0 - 1, 0 - 2},
                   !.nulls = BOOLEAN]

ArgScenarios ==
  { [cfg |-> FullCfg(32), hal |-> h, port |-> FreeRTOSPort, names |-> TaskNames(2),
     env |-> ArgEnv] : h \in {ShippedHal, NoWriteHal} }

InitArgs == InitWith(ArgScenarios)

SpecArgs == InitArgs /\ [][Next]_vars


(* Two tasks, one of which changes the threshold while the other one logs *)
\* an application whose tasks log warnings and informations and set the
\* threshold to Error or Warn
LevelEnv ==
  [PlainEnv EXCEPT !.thresholds = {LOG_ERROR, LOG_WARN}, !.levels = {LOG_WARN, LOG_INFO}]

LevelScenarios ==
  { [cfg |-> LevelCfg(16), hal |-> ShippedHal, port |-> FreeRTOSPort,
     names |-> TaskNames(1), env |-> LevelEnv],
    SoloScenario }

InitLevels == InitWith(LevelScenarios)

SpecLevel == InitLevels /\ [][Next]_vars


(* One calling context on port descriptors that leave hooks out *)
\* an operation table of the application's own for FreeRTOS: l, t and n say
\* whether it has lock and unlock, get_timestamp and get_thread_name
PartialPort(l, t, n) ==
  [FreeRTOSPort EXCEPT !.lock = l, !.unlock = l, !.get_timestamp = t,
                       !.get_thread_name = n]

\* an application with one task that logs short and long texts while the tick
\* count advances, on a driver that may refuse a transfer
PortEnv ==
  [PlainEnv EXCEPT !.callers = {1}, !.levels = {LOG_WARN}, !.lens = {1, MaxMsgLen},
                   !.driver = BOOLEAN, !.ticking = TRUE]

PortScenarios ==
  { [cfg |-> FullCfg(40), hal |-> ShippedHal, port |-> PartialPort(l, t, n),
     names |-> TaskNames(2), env |-> PortEnv] : l \in BOOLEAN, t \in BOOLEAN, n \in BOOLEAN }

InitPort == InitWith(PortScenarios)

SpecPort == InitPort /\ [][Next]_vars


(* Every setting of the selection options of config.h *)
\* the operation table debug_port_init copies under the options
\* DEBUG_USE_FREERTOS and DEBUG_USE_BAREMETAL
debug_port_init_selects(freertos, baremetal) ==
  IF freertos THEN "freertos" ELSE IF baremetal THEN "baremetal" ELSE "#error"

\* the operation table debug_transport_init copies under the options
\* DEBUG_USE_USB_CDC and DEBUG_USE_UART (with DEBUG_VENDOR_STM32 defined)
debug_transport_init_selects(usb_cdc, uart) ==
  IF usb_cdc THEN "usb_cdc" ELSE IF uart THEN "uart" ELSE "#error"

\* a build configuration with its selection options
BuildCfg(freertos, baremetal, usb_cdc, uart) ==
  [size |-> 32, seq |-> TRUE, ts |-> TRUE, thread |-> TRUE,
   freertos |-> freertos, baremetal |-> baremetal, usb_cdc |-> usb_cdc, uart |-> uart]

\* the build stopped at an #error: there is no program, nothing runs
NoPort == [kind |-> "#error", init |-> FALSE, deinit |-> FALSE, lock |-> FALSE, unlock |-> FALSE,
           get_timestamp |-> FALSE, get_thread_name |-> FALSE]
NoHal == [init |-> FALSE, deinit |-> FALSE, write |-> FALSE]
NoProgram == [PlainEnv EXCEPT !.callers = {}, !.trns = {}, !.prt = {}]

\* the program that a setting of the options builds
Build(freertos, baremetal, usb_cdc, uart) ==
  LET p == debug_port_init_selects(freertos, baremetal)
      t == debug_transport_init_selects(usb_cdc, uart)
      c == BuildCfg(freertos, baremetal, usb_cdc, uart)
  IN  IF p = "#error" \/ t = "#error"
      THEN [cfg |-> c, hal |-> NoHal, port |-> NoPort, names |-> TaskNames(1),
            env |-> NoProgram]
      ELSE [cfg |-> c, hal |-> ShippedHal,
            port |-> IF p = "freertos" THEN FreeRTOSPort ELSE BaremetalPort,
            names |-> TaskNames(1),
            env |-> [PlainEnv EXCEPT !.callers = {1}, !.ticking = TRUE,
                                     !.boot = {TRUE}]]

BuildScenarios ==
  { Build(f, b, u, a) : f \in BOOLEAN, b \in BOOLEAN, u \in BOOLEAN, a \in BOOLEAN }

InitBuild == Loaded(BuildScenarios)

SpecBuild == InitBuild /\ [][Next]_vars


(* Concurrent tasks with a buffer that holds every line *)
ConcScenarios ==
  { [ConcScenario EXCEPT !.cfg = SeqCfg(24)], SoloScenario }

InitConc == InitWith(ConcScenarios)

SpecConc == InitConc /\ [][Next]_vars


(* Concurrent tasks that log while the tick count advances *)
TimeScenarios ==
  { [cfg |-> [size |-> 32, seq |-> TRUE, ts |-> TRUE, thread |-> FALSE],
     hal |-> ShippedHal, port |-> FreeRTOSPort, names |-> TaskNames(1),
     env |-> [PlainEnv EXCEPT !.ticking = TRUE]],
    SoloScenario }

InitTime == InitWith(TimeScenarios)

SpecTime == InitTime /\ [][Next]_vars



(* Applications that start and stop the layers themselves *)
\* version 1.0 of the FreeRTOS port, kept in the same file
FreeRTOSPort_v1_0 == [FreeRTOSPort EXCEPT !.kind = "freertos_v1_0"]

\* operation tables without init and deinit hooks
NoBootHal == [ShippedHal EXCEPT !.init = FALSE, !.deinit = FALSE]
NoBootPort == [BaremetalPort EXCEPT !.init = FALSE, !.deinit = FALSE]

\* an application that starts and stops the layers, with hooks that may fail,
\* starts the engine and logs
BootEnv ==
  [PlainEnv EXCEPT !.callers = {1}, !.tres = {0, 0 - 1}, !.pres = {0, 0 - 1},
                   !.boot = BOOLEAN]

\* the same without the engine
LayersEnv == [BootEnv EXCEPT !.callers = {}, !.trns = {}, !.prt = {}]

BootScenarios ==
  { [cfg |-> FullCfg(32), hal |-> ShippedHal, port |-> FreeRTOSPort,
     names |-> TaskNames(1), env |-> BootEnv],
    [cfg |-> FullCfg(32), hal |-> ShippedHal, port |-> BaremetalPort,
     names |-> TaskNames(1), env |-> BootEnv],
    [cfg |-> FullCfg(32), hal |-> NoBootHal, port |-> NoBootPort,
     names |-> TaskNames(1), env |-> BootEnv],
    [cfg |-> FullCfg(32), hal |-> ShippedHal, port |-> FreeRTOSPort_v1_0,
     names |-> TaskNames(1), env |-> LayersEnv] }

InitBoot == InitWith(BootScenarios)

SpecBoot == InitBoot /\ [][Next]_vars


(* Level values that are none of the four constants *)
\* values of log_level_t beyond LOG_DEBUG (the enumeration has no negative
\* constant: its values are kept unsigned)
LOG_BEYOND == LOG_DEBUG + 1
LOG_FAR == LOG_DEBUG + 2

\* an application with one task that sets the threshold to LOG_DEBUG or beyond it
\* and logs at LOG_DEBUG and at values beyond it
TagEnv ==
  [PlainEnv EXCEPT !.callers = {1}, !.thresholds = {LOG_DEBUG, LOG_BEYOND},
                   !.levels = {LOG_DEBUG, LOG_BEYOND, LOG_FAR}, !.lens = {MaxMsgLen}]

TagScenarios ==
  { [cfg |-> c, hal |-> ShippedHal, port |-> FreeRTOSPort, names |-> TaskNames(2),
     env |-> TagEnv] : c \in {FullCfg(40), LevelCfg(40)} }

InitTag == InitWith(TagScenarios)

SpecTag == InitTag /\ [][Next]_vars

(* ------------------------------- claims -------------------------------- *)
\* steps of a call, seen from outside
Entry(p, op) == budget' = budget - 1 /\ last' = [who |-> p, op |-> op]
LogEntry(p) == Entry(p, "debug_log")
Returns(p) == pc[p] # "idle" /\ pc'[p] = "idle"
Ready == debug_ctx.initialized = 1
EndsWith(s, t) == Len(s) >= Len(t) /\ SubSeq(s, Len(s) - Len(t) + 1, Len(s)) = t
Count(s, e) == Cardinality({i \in DOMAIN s : s[i] = e})

\* C1: on a ready engine (whose channel can write) debug_log(S, ...) hands a line
\* to the channel iff S <= T; a call with S > T returns 0 at once, the channel's
\* write is not invoked and the format buffer is not changed.
C1_FilterIffLessSevere ==
  [][\A p \in Callers :
       /\ (Ready /\ LogEntry(p)) =>
             IF frame'[p].level > debug_ctx.level
             THEN /\ pc'[p] = "idle" /\ ret'[p] = 0
                  /\ tx'[p] = << >> /\ Count(trace'[p], "write") = 0
                  /\ s_buffer' = s_buffer
             ELSE pc'[p] # "idle"
       /\ (Returns(p) /\ frame[p].op = "debug_log") =>
             Len(tx'[p]) = 1 /\ Count(trace'[p], "write") = 1]_vars

\* C1 witness: a filtered call has returned on a ready engine whose buffer holds
\* an earlier line
C1_Witness ==
  /\ Ready /\ pc[1] = "idle" /\ frame[1].op = "debug_log"
  /\ frame[1].level > debug_ctx.level /\ ret[1] = 0 /\ tx[1] = << >>
  /\ s_buffer[0] # NUL

\* C2: a debug_log call that is filtered, or made while the engine is not ready,
\* returns 0 and changes nothing: no lock, no sequence number, no store into the
\* buffer, no timestamp, context-name or channel-write hook.
C2_FilteredCallNoEffect ==
  [][\A p \in Callers :
       (LogEntry(p) /\ (~Ready \/ frame'[p].level > debug_ctx.level)) =>
          /\ pc'[p] = "idle" /\ ret'[p] = 0
          /\ trace'[p] = << >> /\ tx'[p] = << >>
          /\ UNCHANGED <<debug_ctx, log_sequence_no, s_buffer, debug_mutex,
                         mutex_holder, tick, last_seq, oob>>]_vars

\* C2 witness: debug_log has returned on an engine that is not ready
C2_Witness ==
  /\ ~Ready /\ pc[1] = "idle" /\ frame[1].op = "debug_log" /\ ret[1] = 0
  /\ budget < MaxCalls

\* a call occupies the format buffer from its first store into it to the end of
\* its channel write
Occupies(p) ==
  \/ pc[p] \in {"fmt_ts", "fmt_thread", "fmt_level"} /\ frame[p].n > 0
  \/ pc[p] \in {"fmt_msg", "fmt_cat"}
  \/ /\ pc[p] \in {"write_check", "write_lock", "write_call", "write_tx"}
     /\ frame[p].src = "s_buffer"

\* C3: with a real mutex and concurrent task-context callers, at most one call at a
\* time is between its first store into the format buffer and the end of its
\* channel write.
C3_OneCallOccupiesBuffer ==
  \A p, q \in Tasks : (p # q /\ Occupies(p)) => ~Occupies(q)

\* C4: with sequence numbering enabled and a real mutex, every non-filtered
\* debug_log call receives the number following the one the previous call received.
C4_SequenceConsecutive ==
  [][\A p \in Callers :
       (pc[p] = "seq_write" /\ pc'[p] = "seq_unlock") =>
          frame'[p].seq = U32Inc(last_seq)]_vars

\* C4 witness: two tasks hold the numbers 1 and 2 in calls that overlap
C4_Witness ==
  \E p, q \in Tasks :
    /\ p # q /\ pc[p] # "idle" /\ pc[q] # "idle"
    /\ frame[p].seq = U32(1) /\ frame[q].seq = U32(2)

\* C5: with a real mutex at most one task-context caller executes the channel's
\* write at any moment.
C5_OneWriterInChannel ==
  \A p, q \in Tasks : (p # q /\ pc[p] = "write_tx") => pc[q] # "write_tx"

\* C5 witness: a task is inside the channel's write while another one waits for
\* the mutex in debug_write
C5_Witness ==
  \E p, q \in Tasks :
    /\ pc[p] = "write_tx" /\ pc[q] = "write_lock"
    /\ mutex_holder = p /\ Takes(q)


\* C6: every composition step of debug_log stores inside the buffer only: the
\* offset handed to the formatter is at most capacity-1 (so the remaining size,
\* capacity minus offset, does not underflow) and no store leaves the buffer.
C6_ComposeInsideBuffer ==
  /\ ~oob
  /\ \A p \in Callers :
       pc[p] \in {"fmt_seq", "fmt_ts", "fmt_thread", "fmt_level", "fmt_msg"} =>
          /\ frame[p].n <= DEBUG_BUFFER_SIZE - 1
          /\ Remaining(frame[p].n) = U32(DEBUG_BUFFER_SIZE - frame[p].n)

\* C7: every line debug_log hands to the channel ends with CR LF.
C7_LineEndsWithCRLF ==
  \A p \in Callers :
    (pc[p] = "write_tx" /\ frame[p].op = "debug_log") => EndsWith(Sent(p), CRLF)

\* C8: for a formatted length L > 0 and capacity C, debug_printf hands the channel
\* the first min(L, C-1) bytes of the formatted text and nothing else, and the
\* buffer holds a terminator right after them.
C8_PrintfTruncates ==
  \A p \in Callers :
    (pc[p] = "write_unlock" /\ frame[p].op = "debug_printf") =>
       LET k == Min(frame[p].len, DEBUG_BUFFER_SIZE - 1)
       IN  /\ tx[p] = << SubSeq(Text(p, frame[p].len), 1, k) >>
           /\ frame[p].wlen = k
           /\ s_buffer[k] = NUL

\* C8 witness: a text that does not fit has been handed to the channel, cut
C8_Witness ==
  /\ pc[1] = "write_unlock" /\ frame[1].op = "debug_printf"
  /\ frame[1].len >= DEBUG_BUFFER_SIZE /\ DEBUG_BUFFER_SIZE > 1
  /\ Len(tx[1]) = 1 /\ Len(tx[1][1]) = DEBUG_BUFFER_SIZE - 1

\* C9: on a ready engine debug_write with a present text and a channel that can
\* write does this, in this order: lock (if the adapter has one), one channel write
\* with the text's bytes and length, unlock (if present); it returns the channel's
\* result, negative or not.
C9_WriteLockWriteUnlock ==
  [][\A p \in Callers :
       (Returns(p) /\ frame[p].op = "debug_write" /\ pc[p] = "write_unlock") =>
          /\ trace'[p] =
                (IF debug_ctx.debug_port /\ port.lock THEN <<"lock">> ELSE << >>)
                \o <<"write">> \o
                (IF debug_ctx.debug_port /\ port.unlock THEN <<"unlock">> ELSE << >>)
          /\ tx'[p] = << Text(p, frame[p].len) >>
          /\ frame[p].wlen = frame[p].len
          /\ ret'[p] = frame[p].r
          /\ mutex_holder' # p]_vars

\* C9 witness: debug_write is about to return a failure of the channel, the lock
\* and the write done
C9_Witness ==
  /\ pc[1] = "write_unlock" /\ frame[1].op = "debug_write" /\ frame[1].r < 0
  /\ frame[1].len > 0 /\ trace[1] = <<"lock", "write">>

\* C10: when the channel's write returns a negative code, debug_log, debug_printf
\* and debug_write return that code, the write was invoked once for the call, and
\* the sequence counter keeps the increment of a debug_log call.
C10_WriteFailureReturned ==
  [][\A p \in Callers :
       (Returns(p) /\ pc[p] = "write_unlock" /\ frame[p].r < 0) =>
          /\ ret'[p] = frame[p].r
          /\ Len(tx'[p]) = 1 /\ Count(trace'[p], "write") = 1
          /\ (frame[p].op = "debug_log" /\ cfg.seq) =>
                /\ frame[p].seq = U32Inc(frame[p].tmp)
                /\ log_sequence_no' = frame[p].seq]_vars

\* C10 witness: debug_log is about to return a failure of the channel
C10_Witness ==
  /\ pc[1] = "write_unlock" /\ frame[1].op = "debug_log" /\ frame[1].r < 0
  /\ log_sequence_no = frame[1].seq /\ frame[1].seq # U32Zero


(* starting the engine, and calls made while it is not ready *)
EmitOps == {"debug_log", "debug_printf", "debug_write"}
InitStep == budget' = budget - 1 /\ last'.op = "debug_init"
BothPresent == last'.trns /\ last'.prt
\* p's emission call returns in this step
Done(p) == pc'[p] = "idle" /\ (Returns(p) \/ \E op \in EmitOps : Entry(p, op))
\* every init hook that was invoked returned success
HooksOk(tr) == \A i \in DOMAIN tr : tr[i].r = 0
\* the last debug_init returned at its argument check
InvalidInit == init_ret = 0 - 1 /\ init_trace = << >>

C13_InitHookFailure ==
  [][(InitStep /\ BothPresent) =>
       LET tr == init_trace' IN
       /\ (hal.init /\ tr # << >> /\ tr[1].r # 0) =>
             init_ret' < 0 /\ ~Ready' /\ Len(tr) = 1 /\ tr[1].hook = "transport.init"
       /\ (port.init /\ tr # << >> /\ tr[Len(tr)].hook = "port.init"
             /\ tr[Len(tr)].r # 0) =>
             init_ret' < 0 /\ ~Ready'
       /\ init_ret' < 0 => ~HooksOk(tr)]_vars

\* C13 witness: the adapter's init hook failed after the channel's succeeded
C13_Witness ==
  /\ ~Ready /\ init_ret = 0 - 1 /\ Len(init_trace) = 2
  /\ init_trace[1] = [hook |-> "transport.init", r |-> 0]
  /\ init_trace[2].hook = "port.init" /\ init_trace[2].r # 0

C16_ReadyIsStable ==
  [][/\ (~Ready /\ Ready') => (InitStep /\ init_ret' = 0)
     /\ Ready => Ready']_vars

\* C16 (amended): the engine becomes ready only through a successful debug_init;
\* once ready it stays ready through every debug_set_level, debug_get_level,
\* debug_write, debug_printf and debug_log call and every debug_init call that
\* succeeds or has an absent reference; a debug_init call with both references
\* present in which an init hook fails makes it not ready.
C16_ReadyLostOnlyByFailedInit ==
  [][/\ (~Ready /\ Ready') => (InitStep /\ init_ret' = 0)
     /\ (Ready /\ ~Ready') =>
          /\ InitStep /\ BothPresent /\ init_ret' < 0
          /\ init_trace' # << >> /\ init_trace'[Len(init_trace')].r # 0
     /\ (Ready /\ InitStep /\ BothPresent /\ ~HooksOk(init_trace')) => ~Ready']_vars

\* C16 witness: an engine that was ready and emitted a line is not ready after a
\* debug_init whose hook failed
C16_Witness ==
  /\ ~Ready /\ last.op = "debug_init" /\ init_ret = 0 - 1 /\ init_trace # << >>
  /\ last_seq = U32(1)


(* interrupt context *)
LockSites == {"seq_lock", "write_lock"}
UnlockSites == {"seq_unlock", "write_unlock"}

\* C17: on the FreeRTOS port lock and unlock called from the interrupt handler
\* never take or give the mutex: the handler is never the holder, its lock and
\* unlock steps leave the holder as it is, and its lock step is always enabled,
\* also while a task holds the mutex.
C17_IsrNeverWaits ==
  /\ [](mutex_holder # ISR)
  /\ [](pc[ISR] \in LockSites => ENABLED (seq_lock(ISR) \/ write_lock(ISR)))
  /\ [][(pc[ISR] \in LockSites \cup UnlockSites /\ pc'[ISR] # pc[ISR]) =>
          mutex_holder' = mutex_holder]_vars

\* C17 witness: the interrupt handler is past the lock of debug_write while the
\* task it interrupted holds the mutex
C17_Witness ==
  /\ pc[ISR] = "write_call" /\ mutex_holder = 1 /\ pc[1] \notin {"idle"}
  /\ port.kind = "freertos" /\ trace[ISR] # << >>


\* C18: with a channel whose write returns and a fairly granted mutex, every
\* debug_log, debug_printf and debug_write call of concurrent task-context
\* callers returns: whenever a task is inside a call it is later outside it.
C18_EveryCallReturns ==
  \A p \in Tasks : (pc[p] # "idle") ~> (pc[p] = "idle")

\* C18 witness: a task waits for the mutex in debug_next_sequence while the other
\* task holds it inside the channel's write
C18_Witness ==
  \E p, q \in Tasks :
    /\ p # q /\ pc[p] = "seq_lock" /\ pc[q] = "write_tx" /\ mutex_holder = q
    /\ ~CanLock(p)


(* the sequence counter *)
StartsWith(s, t) == Len(s) >= Len(t) /\ SubSeq(s, 1, Len(t)) = t

\* C19: the counter is an unsigned 32-bit value: the non-filtered debug_log call
\* made at 2^32-1 receives 0, the call before it 2^32-1 and the calls after it
\* 1, 2, ...; the lines carry these numbers and the calls return no error.
C19_SequenceWraps ==
  /\ [][\A p \in Callers :
         (pc[p] = "seq_write" /\ pc'[p] = "seq_unlock") =>
            /\ log_sequence_no = [hi |-> 65535, lo |-> 65534] =>
                  frame'[p].seq = [hi |-> 65535, lo |-> 65535]
            /\ log_sequence_no = [hi |-> 65535, lo |-> 65535] =>
                  frame'[p].seq = [hi |-> 0, lo |-> 0]
            /\ log_sequence_no.hi = 0 /\ log_sequence_no.lo < 8 =>
                  frame'[p].seq = [hi |-> 0, lo |-> log_sequence_no.lo + 1]
            /\ log_sequence_no' = frame'[p].seq]_vars
  /\ [](\A p \in Callers :
         (pc[p] = "write_unlock" /\ frame[p].op = "debug_log" /\ tx[p] # << >>) =>
            /\ frame[p].r > 0
            /\ frame[p].seq = [hi |-> 65535, lo |-> 65535] =>
                 StartsWith(tx[p][1], <<91, 52, 50, 57, 52, 57, 54, 55, 50, 57, 53, 93>>)
            /\ frame[p].seq = [hi |-> 0, lo |-> 0] =>
                 StartsWith(tx[p][1], <<91, 48, 48, 48, 48, 48, 93>>)
            /\ frame[p].seq = [hi |-> 0, lo |-> 1] =>
                 StartsWith(tx[p][1], <<91, 48, 48, 48, 48, 49, 93>>))

\* C19 witness: the third call after 2^32-2 has sent its line, numbered 1
C19_Witness ==
  /\ log_sequence_no = U32(1) /\ pc[1] = "write_unlock" /\ frame[1].seq = U32(1)
  /\ budget = MaxCalls - 3 /\ frame[1].r > 0
  /\ StartsWith(tx[1][1], <<91, 48, 48, 48, 48, 49, 93>>)


\* C20: on a freshly started engine the first non-filtered debug_log call carries
\* sequence number 1 whatever number of filtered calls came before it; with
\* threshold LOG_WARN and only the sequence number and the level tag enabled,
\* debug_log(LOG_INFO, ...) returns 0 without a write and changes no counter, and
\* the first debug_log(LOG_ERROR, "boom") hands the channel exactly the bytes of
\* [00001][ERROR] boom CR LF.
C20_FirstLineIsNumberOne ==
  /\ [][\A p \in Callers :
         /\ (pc[p] = "seq_write" /\ pc'[p] = "seq_unlock"
               /\ last_seq = [hi |-> 0, lo |-> 0]) =>
               frame'[p].seq = [hi |-> 0, lo |-> 1]
         /\ (Ready /\ LogEntry(p) /\ debug_ctx.level = LOG_WARN
               /\ frame'[p].level = LOG_INFO) =>
               /\ pc'[p] = "idle" /\ ret'[p] = 0 /\ tx'[p] = << >>
               /\ UNCHANGED <<log_sequence_no, last_seq>>
         /\ (Ready /\ LogEntry(p) /\ debug_ctx.level = LOG_WARN
               /\ frame'[p].level = LOG_ERROR) => pc'[p] # "idle"]_vars
  /\ [](\A p \in Callers :
         (/\ pc[p] = "write_unlock" /\ frame[p].op = "debug_log"
          /\ last_seq = [hi |-> 0, lo |-> 1]
          /\ cfg.seq /\ ~cfg.ts /\ ~cfg.thread /\ env.boom
          /\ frame[p].level = LOG_ERROR) =>
            /\ tx[p] = << <<91, 48, 48, 48, 48, 49, 93,
                            91, 69, 82, 82, 79, 82, 93, 32,
                            98, 111, 111, 109, 13, 10>> >>
            /\ frame[p].wlen = 21)

\* C20 witness: after debug_init and a call that returned 0, the threshold being
\* LOG_WARN, debug_log(LOG_ERROR, "boom") has handed its line to the channel
C20_Witness ==
  /\ env.boom /\ debug_ctx.level = LOG_WARN /\ budget = MaxCalls - 3
  /\ pc[1] = "write_unlock" /\ frame[1].op = "debug_log"
  /\ frame[1].level = LOG_ERROR /\ ret[1] = 0 /\ log_sequence_no = U32(1)
  /\ Len(tx[1]) = 1 /\ Len(tx[1][1]) = 21


(* the line of debug_log *)
\* the level tags as the claim names them
TagOf(level) ==
  IF level = 0 THEN <<69, 82, 82, 79, 82>>
  ELSE IF level = 1 THEN <<87, 65, 82, 78>>
  ELSE IF level = 2 THEN <<73, 78, 70, 79>>
  ELSE <<68, 69, 66, 85, 71>>

\* the line the claim describes, for a sequence number and a timestamp of one
\* decimal digit
LineOf(seq, ts, name, level, text) ==
  (IF cfg.seq THEN <<91, 48, 48, 48, 48, 48 + seq, 93>> ELSE << >>) \o
  (IF cfg.ts THEN <<91, 48 + ts, 93>> ELSE << >>) \o
  (IF cfg.thread THEN <<91>> \o name \o <<93>> ELSE << >>) \o
  <<91>> \o TagOf(level) \o <<93, 32>> \o text \o <<13, 10>>

\* C21: the line of a non-filtered debug_log call that fits the buffer is the
\* concatenation, in this order, of the enabled segments only: [5-digit sequence
\* number], [timestamp], [context name], [LEVEL] and a space, the message, CR LF.
C21_LineIsSegmentsInOrder ==
  \A p \in Callers :
    (pc[p] = "write_unlock" /\ frame[p].op = "debug_log") =>
       LET line == LineOf(frame[p].seq.lo, frame[p].ts, names[p], frame[p].level,
                          Text(p, frame[p].len))
       IN  (frame[p].seq.hi = 0 /\ frame[p].seq.lo < 10 /\ frame[p].ts < 10
              /\ Len(line) < DEBUG_BUFFER_SIZE) =>
             /\ tx[p] = <<line>>
             /\ frame[p].wlen = Len(line)

\* C21 witness: a line with every field, at level LOG_DEBUG and tick 1, has been
\* handed to the channel
C21_Witness ==
  /\ cfg.seq /\ cfg.ts /\ cfg.thread
  /\ pc[1] = "write_unlock" /\ frame[1].op = "debug_log"
  /\ frame[1].level = LOG_DEBUG /\ frame[1].ts = 1 /\ frame[1].len = MaxMsgLen
  /\ Len(tx[1]) = 1 /\ Len(tx[1][1]) = 24 + MaxMsgLen


(* argument errors *)
\* the engine's own state
engine == <<debug_ctx, log_sequence_no, s_buffer, debug_mutex, mutex_holder>>

\* C22: on a ready engine debug_printf with an absent template returns -1, and
\* a negative result of the formatting is returned as it is; in both cases the
\* lock is not acquired and the channel's write is not invoked.
C22_PrintfArgumentErrors ==
  [][\A p \in Callers :
       /\ (Ready /\ Entry(p, "debug_printf") /\ frame'[p].null) =>
             /\ pc'[p] = "idle" /\ ret'[p] = 0 - 1
             /\ trace'[p] = << >> /\ tx'[p] = << >>
             /\ mutex_holder' = mutex_holder
       /\ (Ready /\ pc[p] = "printf_fmt" /\ frame[p].len < 0 /\ pc'[p] # pc[p]) =>
             /\ pc'[p] = "idle" /\ ret'[p] = frame[p].len
             /\ trace'[p] = << >> /\ tx'[p] = << >>
             /\ mutex_holder' = mutex_holder]_vars

\* C22 witness: debug_printf has returned the formatting's result -2
C22_Witness ==
  /\ Ready /\ pc[1] = "idle" /\ last = [who |-> 1, op |-> "debug_printf"]
  /\ ~frame[1].null /\ ret[1] = 0 - 2 /\ tx[1] = << >>

\* C23: on a ready engine debug_write returns -1 when the text is absent or the
\* channel has no write hook; the lock is not acquired, no channel operation is
\* invoked and the engine's state is unchanged.
C23_WriteArgumentErrors ==
  [][\A p \in Callers :
       (Ready /\ pc[p] = "write_check" /\ pc'[p] # pc[p]
          /\ frame[p].op = "debug_write" /\ (frame[p].null \/ ~hal.write)) =>
          /\ pc'[p] = "idle" /\ ret'[p] = 0 - 1
          /\ trace'[p] = << >> /\ tx'[p] = << >>
          /\ UNCHANGED engine]_vars

\* C23 witness: debug_write has returned -1 for a present text on a ready engine
\* whose channel has no write hook
C23_Witness ==
  /\ Ready /\ ~hal.write /\ pc[1] = "idle"
  /\ last = [who |-> 1, op |-> "debug_write"] /\ ~frame[1].null
  /\ ret[1] = 0 - 1 /\ trace[1] = << >>


(* the threshold *)
\* a step of debug_set_level: no call is entered or left and no call advances
SetLevelStep == budget' = budget /\ pc' = pc

\* C24: debug_set_level changes only the threshold, in every engine state;
\* debug_get_level returns the value set last (Debug after debug_init) and
\* changes nothing; a debug_log call that starts after debug_set_level is
\* filtered against the new threshold, and a call that has passed its filter
\* returns only after its write.
C24_ThresholdContract ==
  [][/\ SetLevelStep =>
          /\ debug_ctx' = [debug_ctx EXCEPT !.level = level_set']
          /\ UNCHANGED <<log_sequence_no, s_buffer, debug_mutex, mutex_holder,
                         frame, ret, trace, tx>>
     /\ \A p \in Callers :
          /\ Entry(p, "debug_get_level") =>
                ret'[p] = level_set /\ pc'[p] = "idle" /\ UNCHANGED engine
          /\ (Ready /\ LogEntry(p)) =>
                (pc'[p] = "idle" <=> frame'[p].level > level_set)
          /\ (frame[p].op = "debug_log" /\ Returns(p)) =>
                pc[p] = "write_unlock" /\ Len(tx[p]) = 1]_vars

\* C24 witness: task 1 has lowered the threshold to Error and read it back while
\* the Info line of task 2, which had passed the filter, has reached the channel
C24_Witness ==
  /\ Ready /\ debug_ctx.level = LOG_ERROR
  /\ pc[1] = "idle" /\ last = [who |-> 1, op |-> "debug_get_level"]
  /\ ret[1] = LOG_ERROR
  /\ pc[2] = "write_unlock" /\ frame[2].op = "debug_log"
  /\ frame[2].level = LOG_INFO /\ Len(tx[2]) = 1


(* the channels *)
\* C25 as stated: every call of the channel's write makes exactly one transmit
\* attempt and returns the length on success and -1 otherwise.
C25_ExactlyOneAttempt ==
  \A p \in Callers : pc[p] = "write_unlock" =>
    /\ frame[p].drv # "none"
    /\ frame[p].r = IF frame[p].drv = "OK" THEN frame[p].wlen ELSE 0 - 1

\* C25, amended: the channel's write makes at most one transmit attempt: none,
\* returning -1, when the data is absent or the length is 0, and otherwise exactly
\* one, returning the length when the driver reports success and -1 when it
\* reports busy or failure.
C25_AtMostOneAttempt ==
  /\ \A p \in Callers : pc[p] = "write_unlock" =>
       /\ frame[p].drv = "none" <=> frame[p].wlen = 0
       /\ frame[p].r = IF frame[p].drv = "OK" THEN frame[p].wlen ELSE 0 - 1
       /\ Len(tx[p]) = 1 /\ Count(trace[p], "write") = 1
  /\ \A len \in 0..MaxMsgLen, ok \in BOOLEAN :
       ~driver_called(FALSE, len) /\ transport_write(FALSE, len, ok) = 0 - 1

\* C25 witness: the write hook has returned -1 for an empty text without a
\* transmit attempt
C25_Witness ==
  /\ pc[1] = "write_unlock" /\ frame[1].op = "debug_write"
  /\ frame[1].wlen = 0 /\ frame[1].drv = "none" /\ frame[1].r = 0 - 1


(* port descriptors that leave hooks out *)
\* C26: with a port descriptor that lacks lock and unlock, get_timestamp or
\* get_thread_name a non-filtered debug_log call composes the line with timestamp
\* 0 and with the context name MAIN in place of what the absent hook would give,
\* does not lock when lock and unlock are absent, writes once to the channel and
\* returns the channel's result.
C26_AbsentHooksFallBack ==
  [][\A p \in Callers : (frame[p].op = "debug_log" /\ Returns(p)) =>
       LET ts == IF port.get_timestamp THEN frame[p].ts ELSE 0
           name == IF port.get_thread_name THEN names[p] ELSE <<77, 65, 73, 78>>
           line == LineOf(frame[p].seq.lo, ts, name, frame[p].level,
                          Text(p, frame[p].len))
           locks == IF port.lock THEN 2 ELSE 0
       IN  /\ tx[p] = <<line>>
           /\ Count(trace'[p], "write") = 1
           /\ Count(trace'[p], "lock") = locks /\ Count(trace'[p], "unlock") = locks
           /\ Count(trace'[p], "get_timestamp") = (IF port.get_timestamp THEN 1 ELSE 0)
           /\ Count(trace'[p], "get_thread_name") = (IF port.get_thread_name THEN 1 ELSE 0)
           /\ ret'[p] = frame[p].r
           /\ frame[p].r = (IF frame[p].drv = "OK" THEN Len(line) ELSE 0 - 1)]_vars

\* C26 witness: debug_log has returned the length of its line on a port
\* descriptor without lock, unlock, get_timestamp and get_thread_name
C26_Witness ==
  /\ ~port.lock /\ ~port.unlock /\ ~port.get_timestamp /\ ~port.get_thread_name
  /\ pc[1] = "idle" /\ last = [who |-> 1, op |-> "debug_log"]
  /\ Len(tx[1]) = 1 /\ ret[1] = Len(tx[1][1]) /\ ret[1] = 25 + MaxMsgLen
  /\ trace[1] = <<"write">>


(* the selection options *)
\* the build was halted
Halted == port.kind = "#error"

\* C27: for every setting of the two execution-environment options and of the
\* two channel options the build is halted unless exactly one option of each
\* pair is enabled.
C27_BuildHaltsUnlessExactlyOne ==
  ~Halted => /\ cfg.freertos # cfg.baremetal
             /\ cfg.usb_cdc # cfg.uart


(* concurrent callers *)
\* C28: with a lock that excludes, concurrent tasks and a channel write that
\* succeeds, every non-filtered debug_log call makes the channel receive exactly
\* the line that this call composed, once.
C28_OwnLineReachesChannel ==
  \A p \in Tasks :
    (pc[p] = "write_unlock" /\ frame[p].op = "debug_log" /\ port.lock /\ port.unlock
       /\ frame[p].seq.hi = 0 /\ frame[p].seq.lo < 10) =>
      tx[p] = <<LineOf(frame[p].seq.lo, frame[p].ts, names[p], frame[p].level,
                       Text(p, frame[p].len))>>

\* the sequence number a transmitted line shows (numbers below 10)
SeqShown(line) == IF Len(line) >= 6 THEN line[6] - 48 ELSE 0 - 1

\* C29: with a lock that excludes and concurrent tasks the lines reach the
\* channel in strictly increasing order of their sequence numbers: no line is
\* written after a line of another task that shows a larger number.
C29_ChannelOrderIsSequenceOrder ==
  [][\A p \in Tasks, q \in Tasks :
       (p # q /\ pc[p] = "write_tx" /\ pc'[p] = "write_unlock"
          /\ frame[p].op = "debug_log" /\ frame[q].op = "debug_log"
          /\ tx[q] # << >>) =>
         SeqShown(tx[q][1]) < SeqShown(tx'[p][1])]_vars


(* lock discipline *)
LockCall(h) == h \in {"lock", "unlock"}
\* the lock and unlock calls of p's current (or last) call, in order
Locking(p) == SelectSeq(trace[p], LockCall)

\* C30: in every debug_log, debug_printf and debug_write call the lock and
\* unlock calls alternate, starting with lock; the lock is not requested while
\* the call holds it, it is released when the call returns (also after a failed
\* channel write), and debug_log acquires it at most twice, the others once.
C30_LockUnlockAlternate ==
  \A p \in Callers :
    LET ls == Locking(p)
    IN  /\ \A i \in DOMAIN ls : ls[i] = (IF i % 2 = 1 THEN "lock" ELSE "unlock")
        /\ pc[p] \in {"idle"} \cup LockSites => Len(ls) % 2 = 0
        /\ Len(ls) <= (IF frame[p].op = "debug_log" THEN 4 ELSE 2)
        /\ (pc[p] \in UnlockSites /\ port.lock /\ port.unlock) => Len(ls) % 2 = 1

\* C30 witness: a debug_log call whose channel write failed has returned after
\* two acquisitions, each released
C30_Witness ==
  /\ pc[1] = "idle" /\ last = [who |-> 1, op |-> "debug_log"] /\ ret[1] = 0 - 1
  /\ Len(tx[1]) = 1
  /\ Locking(1) = <<"lock", "unlock", "lock", "unlock">>


(* timestamps *)
\* p's debug_log call has its sequence number (numbers below 2^16)
Numbered(p) == frame[p].op = "debug_log" /\ pc[p] # "idle" /\ frame[p].seq # U32Zero

\* C31: with concurrent tasks, a lock that excludes and a tick count that never
\* decreases, a line with a larger sequence number never carries a smaller
\* timestamp than a line with a smaller sequence number.
C31_TimestampsFollowSequence ==
  \A p \in Tasks, q \in Tasks :
    (Numbered(p) /\ Numbered(q) /\ frame[p].seq.hi = 0 /\ frame[q].seq.hi = 0
       /\ frame[p].seq.lo < frame[q].seq.lo) =>
      frame[p].ts <= frame[q].ts


(* the sequence counter *)
\* C32: the sequence counter is changed only by the increment of a non-filtered
\* debug_log call, by one; debug_init, first or repeated, successful or failing,
\* debug_set_level, debug_printf and debug_write leave it as it is.
C32_CounterChangesOnlyByLog ==
  [][/\ log_sequence_no' # log_sequence_no =>
          /\ \E p \in Callers : /\ pc[p] = "seq_write" /\ pc'[p] = "seq_unlock"
                                /\ frame[p].op = "debug_log"
          /\ log_sequence_no'.lo = (log_sequence_no.lo + 1) % HALF
          /\ log_sequence_no'.hi = IF log_sequence_no.lo = HALF - 1
                                   THEN (log_sequence_no.hi + 1) % HALF
                                   ELSE log_sequence_no.hi
     /\ (InitStep \/ SetLevelStep) => UNCHANGED log_sequence_no]_vars

\* C32 witness: after a line numbered 1 a second debug_init has succeeded and
\* the counter is still 1
C32_Witness ==
  /\ Ready /\ last.op = "debug_init" /\ init_ret = 0 /\ budget = MaxCalls - 3
  /\ log_sequence_no = U32(1)


(* start-up and shut-down *)
\* the invocations of hook h by the start-up calls and by the last debug_init
Invocations(h) ==
  Cardinality({i \in DOMAIN boot : \E j \in DOMAIN boot[i].hooks :
                                      boot[i].hooks[j].hook = h})
  + Cardinality({j \in DOMAIN init_trace : init_trace[j].hook = h})

\* the program has run the documented start-up sequence and nothing else
DocumentedStartUp ==
  /\ budget = MaxCalls - 3
  /\ Len(boot) = 2
  /\ boot[1].fn = "debug_transport_init" /\ boot[1].present /\ boot[1].r = 0
  /\ boot[2].fn = "debug_port_init" /\ boot[2].present /\ boot[2].r = 0
  /\ last.op = "debug_init" /\ last.trns /\ last.prt /\ init_ret = 0

\* C33: after the documented start-up sequence debug_transport_init(&transport),
\* debug_port_init(&port), debug_init(&transport, &port) the init hook of the
\* channel and the init hook of the port have each been invoked exactly once (on
\* FreeRTOS: exactly one mutex has been created).
C33_InitHooksInvokedOnce ==
  DocumentedStartUp =>
    /\ hal.init => Invocations("transport.init") = 1
    /\ port.init => Invocations("port.init") = 1


\* the hook that each of the four functions invokes, and whether the operation
\* table has it
HookOf(fn) ==
  CASE fn = "debug_transport_init" -> "transport.init"
    [] fn = "debug_transport_deinit" -> "transport.deinit"
    [] fn = "debug_port_init" -> "port.init"
    [] fn = "debug_port_deinit" -> "port.deinit"
HasHookOf(fn) ==
  CASE fn = "debug_transport_init" -> hal.init
    [] fn = "debug_transport_deinit" -> hal.deinit
    [] fn = "debug_port_init" -> port.init
    [] fn = "debug_port_deinit" -> port.deinit

\* C35: debug_port_init, debug_port_deinit, debug_transport_init and
\* debug_transport_deinit return -1 for an absent descriptor without invoking any
\* hook; otherwise they return the result of the corresponding hook when it is
\* present and 0 when it is absent.
C35_StartStopResults ==
  [][Len(boot') = Len(boot) + 1 =>
       LET b == boot'[Len(boot')]
       IN  /\ last'.op = b.fn
           /\ IF ~b.present
              THEN b.r = 0 - 1 /\ b.hooks = << >> /\ b.kernel = << >>
                   /\ debug_mutex' = debug_mutex
              ELSE IF HasHookOf(b.fn)
              THEN /\ Len(b.hooks) = 1 /\ b.hooks[1].hook = HookOf(b.fn)
                   /\ b.r = b.hooks[1].r
              ELSE b.hooks = << >> /\ b.kernel = << >> /\ b.r = 0]_vars

\* an absent descriptor, a hook that failed and a hook that succeeded
C35_Witness ==
  /\ Len(boot) = 3
  /\ ~boot[1].present /\ boot[1].r = 0 - 1
  /\ boot[2].fn = "debug_transport_init" /\ boot[2].present /\ boot[2].r = 0 - 1
       /\ boot[2].hooks = <<[hook |-> "transport.init", r |-> 0 - 1]>>
  /\ boot[3].fn = "debug_port_deinit" /\ boot[3].present /\ boot[3].r = 0
       /\ Len(boot[3].hooks) = 1


\* the step is a call of fn on a FreeRTOS port that invokes the hook
PortHookStep(fn) ==
  /\ port.kind \in FreeRTOSKinds
  /\ Len(boot') = Len(boot) + 1
  /\ boot'[Len(boot')].fn = fn
  /\ boot'[Len(boot')].hooks # << >>

\* C36: FreeRTOS port: init returns success iff the mutex was created; while no
\* mutex exists lock and unlock do nothing and never touch the mutex; deinit
\* deletes the mutex at most once, and a deinit without a mutex is a no-op that
\* returns success.
C36_FreeRTOSPortContract ==
  [][/\ PortHookStep("debug_port_init") =>
          (boot'[Len(boot')].hooks[1].r = 0 <=> debug_mutex' = "mutex")
     /\ PortHookStep("debug_port_deinit") =>
          /\ boot'[Len(boot')].hooks[1].r = 0
          /\ boot'[Len(boot')].kernel =
               (IF debug_mutex = "mutex" THEN <<"vSemaphoreDelete">> ELSE << >>)
          /\ debug_mutex' # "mutex"
          /\ ~oob'
     /\ (port.kind \in FreeRTOSKinds /\ debug_mutex # "mutex") =>
          mutex_holder' = mutex_holder]_vars


C38_EmptyPrintfReturnsZero ==
  [][\A p \in Callers :
       (Ready /\ pc[p] = "printf_fmt" /\ frame[p].len = 0 /\ pc'[p] # pc[p]) =>
          /\ pc'[p] = "idle" /\ ret'[p] = 0
          /\ trace'[p] = << >> /\ tx'[p] = << >>
          /\ mutex_holder' = mutex_holder]_vars

\* C38 witness: debug_printf has returned 0 for a present template on a ready
\* engine whose channel can write
C38_Witness ==
  /\ Ready /\ hal.write /\ pc[1] = "idle" /\ last = [who |-> 1, op |-> "debug_printf"]
  /\ ~frame[1].null /\ ret[1] = 0 /\ trace[1] = << >> /\ tx[1] = << >>


(* level values that are none of the four constants *)
\* the tag the claim expects: the level's name, LOG for any other value
ExpectedTag(level) ==
  IF level \in LOG_ERROR..LOG_DEBUG THEN TagOf(level) ELSE <<76, 79, 71>>

\* the line with that tag, for a sequence number and a timestamp of one digit
ExpectedLine(p) ==
  (IF cfg.seq THEN <<91, 48, 48, 48, 48, 48 + frame[p].seq.lo, 93>> ELSE << >>) \o
  (IF cfg.ts THEN <<91, 48 + frame[p].ts, 93>> ELSE << >>) \o
  (IF cfg.thread THEN <<91>> \o names[p] \o <<93>> ELSE << >>) \o
  <<91>> \o ExpectedTag(frame[p].level) \o <<93, 32>> \o Text(p, frame[p].len)
  \o <<13, 10>>

\* C37: a level value outside the four constants passes the filter only after
\* the threshold was set above Debug, and is then emitted with the fallback tag
\* LOG; no level value makes debug_log fail or emit a line without a level tag.
C37_UnknownLevelGetsLOG ==
  [][\A p \in Callers :
       /\ (Ready /\ LogEntry(p) /\ frame'[p].level \notin LOG_ERROR..LOG_DEBUG
             /\ pc'[p] # "idle") =>
            level_set > LOG_DEBUG
       /\ (pc[p] = "write_tx" /\ pc'[p] = "write_unlock" /\ frame[p].op = "debug_log"
             /\ frame[p].seq.hi = 0 /\ frame[p].seq.lo < 10 /\ frame[p].ts < 10) =>
            tx'[p] = <<ExpectedLine(p)>>
       /\ (frame[p].op = "debug_log" /\ Returns(p) /\ hal.write) =>
            /\ pc[p] = "write_unlock"
            /\ Len(tx[p]) = 1
            /\ ret'[p] = Len(tx[p][1])
            /\ ret'[p] > 0]_vars

\* C37 witness: a line with the tag LOG has reached the channel and the call has
\* returned its length
C37_Witness ==
  /\ cfg.thread /\ pc[1] = "idle" /\ last = [who |-> 1, op |-> "debug_log"]
  /\ frame[1].level = LOG_BEYOND /\ level_set = LOG_BEYOND
  /\ Len(tx[1]) = 1 /\ ret[1] = 22 + MaxMsgLen
  /\ SubSeq(tx[1][1], 15, 21) = <<91, 76, 79, 71, 93, 32, 97 + 13>>
====
